---- MODULE Spec2Model ----
(***************************************************************************)
(* LLM chat service: the in-memory conversation history (MemoryStore), its *)
(* trimming pass, and the chat relay (ProcessChat / ProcessChatStream)     *)
(* that reads and appends to it.                                           *)
(*                                                                         *)
(* A Message is a record [role, content].  A content is a sequence of      *)
(* small numbers (its characters), so that the empty text is <<>>.         *)
(* Go slices are 0-based; sequences here are 1-based, so index i of the    *)
(* code is element i+1 of the sequence.                                    *)
(***************************************************************************)
EXTENDS Integers, Sequences, FiniteSets, Bags, TLC

\* ------------------------------------------------------------------ bounds
\* largest maxExchanges the store is constructed with
MaxN == 2
\* number of AddMessage calls in one run of the sequential store
MaxAppends == 8
\* longest sequence the trimming pass is applied to directly
MaxLen == 7
\* number of chat requests in one run of the relay
MaxRequests == 2
\* number of store calls in one run of the concurrently called store
MaxCalls == 5
\* number of steps in one run of the store on the Go heap
MaxHeapSteps == 7
\* longest turn list given to Validate
MaxTurns == 3
MaxKeyTurns == 2
MaxContent == 1

\* ------------------------------------------------------------------ state
VARIABLES
    messages,       \* MemoryStore.messages
    maxExchanges,   \* MemoryStore.maxExchanges
    log,            \* every message given to AddMessage since the store was last empty
    pre,            \* s.messages between the append and the trimming pass of the last AddMessage
    nAppends,       \* number of AddMessage calls so far
    tin,            \* trimming pass applied directly: the sequence it is given
    tout,           \* trimming pass applied directly: the sequence after each pass, in order
    tmax,           \* trimming pass applied directly: maxExchanges
    vreq,           \* Validate applied directly: the ChatRequest it is given
    vres,           \* Validate applied directly: the error it returned (Pending before the call)
    pc,             \* per request goroutine: where it is in ProcessChat / ProcessChatStream
    req,            \* per request goroutine: the ChatRequest (Messages, Stream)
    history,        \* per request goroutine: the local history (the snapshot it took)
    response,       \* per request goroutine: the local response (the backend's full text)
    started,        \* number of requests started so far
    cacheStore,     \* chatService.cacheStore: "nil", or the cache
    before,         \* per request goroutine: the store's history when the request came in
    cacheCalls,     \* per request goroutine: the cache calls it made, in order
    sent,           \* per request goroutine: the messages it gave to the backend client (<<>>: no call)
    exch,           \* per request goroutine: the HTTP exchange of its backend call
    pos,            \* per request goroutine: the lines ScanStream has consumed
    full,           \* per request goroutine: ScanStream's fullResponse
    sink,           \* per request goroutine: the contents onToken was called with, in order
    sinkErr,        \* per request goroutine: what the last call of onToken returned
    err,            \* per request goroutine: the local err of the backend call
    ret,            \* per request goroutine: what ProcessChat / ProcessChatStream returned
    mu,             \* MemoryStore.mu: w, the goroutine inside Lock()..Unlock(); readers, those inside RLock()..RUnlock()
    spc,            \* per goroutine calling the store: where it is in AddMessage / GetMessages / Clear
    sarg,           \* per goroutine calling the store: the msg of its AddMessage
    tmp,            \* per goroutine calling the store: s.messages as read by its append
    result,         \* per goroutine calling the store: what its last GetMessages returned
    committed,      \* s.messages as the last Unlock() left it
    added,          \* every msg given to an AddMessage call so far
    dropped,        \* number of messages the trimming passes removed so far
    cleared,        \* Clear has been called
    nCalls,         \* number of store calls so far
    heap,           \* the backing arrays of the slices, by address (1, 2, ...); a freed one is <<>>
    sl,             \* s.messages as a slice: its array, offset, length (its capacity is the rest of the array)
    snap,           \* the slice a caller got from GetMessages (NoSlice before)
    snapValue,      \* what the caller expects to find in snap: what was returned, with its own changes
    hsteps,          \* number of steps so far
    keyed,          \* getCacheKey applied directly: the two message lists
    keys,           \* getCacheKey applied directly: their keys (NoKey before the call)
    shape,          \* the handler ChatHandler selected: json, sse or ws (none before a request)
    hpc,            \* where the handler is: idle, accepted, rejected, responded
    status,         \* the HTTP status code sent to the client (0: none yet)
    wire            \* what the handler wrote to the client once the request was processed, in order

vars == <<messages, maxExchanges, log, pre, nAppends, tin, tout, tmax, vreq, vres,
          pc, req, history, response, started,
          cacheStore, before, cacheCalls, sent, exch, pos, full, sink, sinkErr, err, ret,
          mu, spc, sarg, tmp, result, committed, added, dropped, cleared, nCalls,
          heap, sl, snap, snapValue, hsteps,
         keyed, keys,
         shape, hpc, status, wire>>

storeVars == <<messages, maxExchanges, pre>>
callVars == <<log, nAppends>>
trimVars == <<tin, tout, tmax>>
validateVars == <<vreq, vres>>
relayVars == <<pc, req, history, response, started,
               cacheStore, before, cacheCalls, sent, exch, pos, full, sink, sinkErr, err, ret>>
rwVars == <<mu, spc, sarg, tmp, result, committed, added, dropped, cleared, nCalls>>
heapVars == <<heap, sl, snap, snapValue, hsteps>>
keyVars == <<keyed, keys>>
httpVars == <<shape, hpc, status, wire>>

\* ------------------------------------------------------------------ messages
Message(r, c) == [role |-> r, content |-> c]

Roles == {"user", "assistant"}

\* all sequences over S of length at most n
RECURSIVE SeqsUpTo(_, _)
SeqsUpTo(S, n) ==
    IF n = 0 THEN {<<>>}
    ELSE LET shorter == SeqsUpTo(S, n - 1)
         IN  shorter \cup {Append(s, x) : s \in {t \in shorter : Len(t) = n - 1}, x \in S}

\* ------------------------------------------------------------------ trimming
\* The loop of countExchanges, at code index i (element i+1), scanning down.
\* The "break" of the source leaves the for loop, so a last message with
\* role user ends the count at once.
RECURSIVE countLoop(_, _, _)
countLoop(msgs, i, exchangeCount) ==
    IF i < 0 THEN exchangeCount
    ELSE IF msgs[i + 1].role = "user"
         THEN IF i + 1 < Len(msgs) /\ msgs[i + 2].role = "assistant"
              THEN countLoop(msgs, i - 1, exchangeCount + 1)
              ELSE IF i = Len(msgs) - 1
                   THEN exchangeCount
                   ELSE countLoop(msgs, i - 1, exchangeCount)
         ELSE countLoop(msgs, i - 1, exchangeCount)

\* a count of the user messages, whatever follows them
RECURSIVE countUserTurns(_)
countUserTurns(msgs) ==
    IF msgs = <<>> THEN 0
    ELSE countUserTurns(SubSeq(msgs, 1, Len(msgs) - 1)) + (IF msgs[Len(msgs)].role = "user" THEN 1 ELSE 0)

countExchanges(msgs) == countLoop(msgs, Len(msgs) - 1, 0)

\* findStartIndex with the number of excess exchanges taken for the index itself
findStartIndexAsCount(msgs, exchangeCount, exchangesToKeep) ==
    exchangeCount - exchangesToKeep

\* The loop of findStartIndex, at code index i, scanning up; the result is a
\* code (0-based) index.
RECURSIVE findLoop(_, _, _, _, _)
findLoop(msgs, i, keptExchanges, exchangeCount, exchangesToKeep) ==
    IF i >= Len(msgs) THEN 0
    ELSE IF msgs[i + 1].role = "user" /\ i + 1 < Len(msgs) /\ msgs[i + 2].role = "assistant"
         THEN IF keptExchanges + 1 = exchangeCount - exchangesToKeep + 1
              THEN i
              ELSE findLoop(msgs, i + 1, keptExchanges + 1, exchangeCount, exchangesToKeep)
         ELSE findLoop(msgs, i + 1, keptExchanges, exchangeCount, exchangesToKeep)

\* findStartIndex stopping one exchange early (== excess instead of excess + 1)
findStartIndexOneEarly(msgs, exchangeCount, exchangesToKeep) ==
    findLoop(msgs, 0, 0, exchangeCount, exchangesToKeep + 1)

\* findStartIndex returning the index after the user message of the exchange
findStartIndexSplits(msgs, exchangeCount, exchangesToKeep) ==
    LET i == findLoop(msgs, 0, 0, exchangeCount, exchangesToKeep)
    IN  IF exchangeCount > exchangesToKeep THEN i + 1 ELSE i

findStartIndex(msgs, exchangeCount, exchangesToKeep) ==
    findLoop(msgs, 0, 0, exchangeCount, exchangesToKeep)

\* the slice without its last element: msgs[startIndex : len(msgs)-1]
SliceFromButLast(msgs, startIndex) == SubSeq(msgs, startIndex + 1, Len(msgs) - 1)

\* msgs[startIndex:]
SliceFrom(msgs, startIndex) == SubSeq(msgs, startIndex + 1, Len(msgs))

\* the trimming pass without its first test: a limit of 0 or less is a limit
trimToMaxExchangesUnguarded(msgs, maxEx) ==
    LET exchangeCount == countExchanges(msgs)
    IN  IF exchangeCount > maxEx
        THEN SliceFrom(msgs, findStartIndex(msgs, exchangeCount, maxEx))
        ELSE msgs

trimToMaxExchanges(msgs, maxEx) ==
    IF maxEx <= 0 THEN msgs
    ELSE LET exchangeCount == countExchanges(msgs)
         IN  IF exchangeCount > maxEx
             THEN SliceFrom(msgs, findStartIndex(msgs, exchangeCount, maxEx))
             ELSE msgs

\* ------------------------------------------------------------------ errors
\* An error is the chain of its layers, outermost first: "fmt.Errorf" for a
\* wrapper made with %w, the ErrorType of an *AppError, "errors.New" for an
\* error that is neither.  nil is the empty chain.
ErrorTypes ==
    {"validation_error", "timeout_error", "llm_error", "rate_limit_error",
     "internal_error", "not_found", "unauthorized_error"}

nil == <<>>

NewValidationError == <<"validation_error">>
NewTimeoutError == <<"timeout_error">>
NewLLMError == <<"llm_error">>
NewRateLimitError == <<"rate_limit_error">>
NewInternalError == <<"internal_error">>
NewUnauthorizedError == <<"unauthorized_error">>

\* errors.New(...), and fmt.Errorf without an error to wrap
ErrorsNew == <<"errors.New">>

\* fmt.Errorf("...: %w", err)
Errorf(e) == <<"fmt.Errorf">> \o e

\* errors.As(err, &appErr): the Type of the first *AppError in the chain,
\* "none" when there is none
RECURSIVE As(_)
As(e) ==
    IF e = <<>> THEN "none"
    ELSE IF Head(e) \in ErrorTypes THEN Head(e)
    ELSE As(Tail(e))

\* ------------------------------------------------------------------ Validate's state
NoRequest == [Messages |-> <<>>, Stream |-> FALSE]

\* no call made yet
Pending == <<"pending">>

ValidateIdle ==
    /\ vreq = NoRequest
    /\ vres = Pending

\* ------------------------------------------------------------------ the relay's state
\* the goroutines serving chat requests at the same time: every conflict
\* between requests is one between two of them
Workers == {1, 2}

\* nothing returned yet
NoReturn == [text |-> <<>>, err |-> Pending]

\* the HTTP exchange with the LLM API has not taken place
NoOutcome == [transport |-> "", status |-> 0, doc |-> <<>>, lines |-> <<>>, got |-> 0, cut |-> ""]

RelayIdle ==
    /\ pc = [w \in Workers |-> "idle"]
    /\ req = [w \in Workers |-> NoRequest]
    /\ history = [w \in Workers |-> <<>>]
    /\ response = [w \in Workers |-> <<>>]
    /\ started = 0
    /\ cacheStore = "nil"
    /\ before = [w \in Workers |-> <<>>]
    /\ cacheCalls = [w \in Workers |-> <<>>]
    /\ sent = [w \in Workers |-> <<>>]
    /\ exch = [w \in Workers |-> NoOutcome]
    /\ pos = [w \in Workers |-> 0]
    /\ full = [w \in Workers |-> <<>>]
    /\ sink = [w \in Workers |-> <<>>]
    /\ sinkErr = [w \in Workers |-> nil]
    /\ err = [w \in Workers |-> nil]
    /\ ret = [w \in Workers |-> NoReturn]

\* ------------------------------------------------------------------ the store's lock and its callers
\* the goroutines calling the store at the same time
Callers == {1, 2, 3}

NoMessage == Message("", <<>>)

RWIdle ==
    /\ mu = [w |-> 0, readers |-> {}]
    /\ spc = [c \in Callers |-> "idle"]
    /\ sarg = [c \in Callers |-> NoMessage]
    /\ tmp = [c \in Callers |-> <<>>]
    /\ result = [c \in Callers |-> <<>>]
    /\ committed = <<>>
    /\ added = EmptyBag
    /\ dropped = 0
    /\ cleared = FALSE
    /\ nCalls = 0

\* ------------------------------------------------------------------ slices on the Go heap
\* A slice is [arr, off, len]: the elements off+1 .. off+len of the array at
\* address arr; its capacity is what is left of the array after off.
Slice(a, o, n) == [arr |-> a, off |-> o, len |-> n]

NoSlice == Slice(0, 0, 0)

Cap(h, s) == IF s.arr = 0 THEN 0 ELSE Len(h[s.arr]) - s.off

\* the elements of a slice
View(h, s) == IF s.arr = 0 THEN <<>> ELSE SubSeq(h[s.arr], s.off + 1, s.off + s.len)

HeapIdle ==
    /\ heap = <<>>
    /\ sl = NoSlice
    /\ snap = NoSlice
    /\ snapValue = <<>>
    /\ hsteps = 0

\* the handlers' state, before a request
HTTPIdle ==
    /\ shape = "none"
    /\ hpc = "idle"
    /\ status = 0
    /\ wire = <<>>

\* getCacheKey's state, before a key is derived
NoKey == <<>>

KeyIdle ==
    /\ keyed = <<<<>>, <<>>>>
    /\ keys = <<NoKey, NoKey>>

\* ------------------------------------------------------------------ the store, called sequentially
NewMemoryStore(n) ==
    /\ messages = <<>>
    /\ maxExchanges = n
    /\ pre = <<>>
    /\ log = <<>>
    /\ nAppends = 0

TrimIdle ==
    /\ tin = <<>>
    /\ tout = <<>>
    /\ tmax = 0

AddMessage(msg) ==
    /\ pre' = Append(messages, msg)
    /\ messages' = trimToMaxExchanges(Append(messages, msg), maxExchanges)
    /\ UNCHANGED maxExchanges

\* a Clear that leaves the last message in the store
ClearButLast ==
    /\ messages' = SubSeq(messages, Len(messages), Len(messages))
    /\ pre' = <<>>
    /\ UNCHANGED maxExchanges

Clear ==
    /\ messages' = <<>>
    /\ pre' = <<>>
    /\ UNCHANGED maxExchanges

\* The content of an appended message is the number of the call: the store
\* never reads a content, and distinct contents show every reordering.
StoreAppend ==
    /\ nAppends < MaxAppends
    /\ \E msg \in {Message(r, <<nAppends + 1>>) : r \in Roles} :
           /\ AddMessage(msg)
           /\ log' = Append(log, msg)
    /\ nAppends' = nAppends + 1
    /\ UNCHANGED <<trimVars, validateVars, relayVars, rwVars, heapVars, keyVars, httpVars>>

StoreClear ==
    /\ messages /= <<>>
    /\ Clear
    /\ log' = <<>>
    /\ UNCHANGED <<nAppends, trimVars, validateVars, relayVars, rwVars, heapVars, keyVars, httpVars>>

InitStore ==
    /\ \E n \in -1 .. MaxN : NewMemoryStore(n)
    /\ TrimIdle
    /\ ValidateIdle
    /\ RelayIdle
    /\ RWIdle
    /\ HeapIdle
    /\ KeyIdle
    /\ HTTPIdle

NextStore == StoreAppend \/ StoreClear

SpecStore == InitStore /\ [][NextStore]_vars

\* ------------------------------------------------------------------ the trimming pass, applied directly
AnyRoles == {"user", "assistant", "system"}

LastOut == IF tout = <<>> THEN tin ELSE tout[Len(tout)]

\* One run of trimToMaxExchanges on what the previous run left.
TrimPass ==
    /\ Len(tout) < 2
    /\ tout' = Append(tout, trimToMaxExchanges(LastOut, tmax))
    /\ UNCHANGED <<tin, tmax>>
    /\ UNCHANGED <<storeVars, callVars, validateVars, relayVars, rwVars, heapVars, keyVars, httpVars>>

InitTrim ==
    /\ tin \in SeqsUpTo({Message(r, <<1>>) : r \in AnyRoles}, MaxLen)
    /\ tmax \in -1 .. MaxN
    /\ tout = <<>>
    /\ ValidateIdle
    /\ NewMemoryStore(0)
    /\ RelayIdle
    /\ RWIdle
    /\ HeapIdle
    /\ KeyIdle
    /\ HTTPIdle

NextTrim == TrimPass

SpecTrim == InitTrim /\ [][NextTrim]_vars

\* ------------------------------------------------------------------ the relay
\* ChatRequest.Validate: "ok", or the kind of the validation error.  The
\* first offending message decides, its role before its content.
\* the loop of Validate looking at the roles only
RECURSIVE validateLoopRolesOnly(_, _)
validateLoopRolesOnly(msgs, i) ==
    IF i > Len(msgs) THEN "ok"
    ELSE IF msgs[i].role /= "user" /\ msgs[i].role /= "assistant" THEN "invalid role"
    ELSE validateLoopRolesOnly(msgs, i + 1)

RECURSIVE validateLoop(_, _)
validateLoop(msgs, i) ==
    IF i > Len(msgs) THEN "ok"
    ELSE IF msgs[i].role /= "user" /\ msgs[i].role /= "assistant" THEN "invalid role"
    ELSE IF msgs[i].content = <<>> THEN "empty content"
    ELSE validateLoop(msgs, i + 1)

Validate(r) ==
    IF Len(r.Messages) = 0 THEN "messages cannot be empty"
    ELSE IF validateLoop(r.Messages, 1) /= "ok" THEN validateLoop(r.Messages, 1)
    ELSE IF r.Messages[Len(r.Messages)].role /= "user" THEN "last message must be from user"
    ELSE "ok"

\* the error Validate returns: every rejection is a NewValidationError
ValidateErr(r) == IF Validate(r) = "ok" THEN nil ELSE NewValidationError

\* ------------------------------------------------------------------ Validate, applied directly
\* the roles and contents of the requests Validate is given
RequestRoles == {"user", "assistant", "moderator", ""}
RequestContents == {<<>>, <<1>>}

ValidateCall ==
    /\ vres = Pending
    /\ vres' = ValidateErr(vreq)
    /\ UNCHANGED vreq
    /\ UNCHANGED <<storeVars, callVars, trimVars, relayVars, rwVars, heapVars, keyVars, httpVars>>

InitValidate ==
    /\ \E ms \in SeqsUpTo({Message(r, c) : r \in RequestRoles, c \in RequestContents}, MaxTurns),
          st \in BOOLEAN :
           vreq = [Messages |-> ms, Stream |-> st]
    /\ vres = Pending
    /\ NewMemoryStore(0)
    /\ TrimIdle
    /\ RelayIdle
    /\ RWIdle
    /\ HeapIdle
    /\ KeyIdle
    /\ HTTPIdle

NextValidate == ValidateCall

SpecValidate == InitValidate /\ [][NextValidate]_vars

\* ------------------------------------------------------------------ the backend client
\* One HTTP exchange with the LLM API, as the client sees it:
\*   transport  "ok", or why c.httpClient.Do / http.NewRequest failed
\*   status     the HTTP status code
\*   doc        the body of a non-streaming answer: <<kind, content>>
\*   lines      the lines of a streaming answer, as the backend generated them
\*   got        how many of these lines scanner.Scan() yields before it
\*              returns false (all of them, unless the read fails or a line
\*              is longer than the scanner's buffer; scanner.Err() is not read)
\*   cut        "timeout" when the read of the body ended because the
\*              client's Timeout (60 s, from the start of the request to the
\*              end of the body) expired, "" otherwise
Outcome(t, s, d, l, g) ==
    [transport |-> t, status |-> s, doc |-> d, lines |-> l, got |-> g, cut |-> ""]

\* the same exchange, its body cut by the client's Timeout
TimedOut(o) == [o EXCEPT !.cut = "timeout"]

StatusOK == 200

\* the lines of a stream
Blank == [kind |-> "blank", content |-> <<>>]
Bad == [kind |-> "bad", content |-> <<>>]
NoChoices == [kind |-> "nochoices", content |-> <<>>]
Done == [kind |-> "done", content |-> <<>>]
Chunk(c) == [kind |-> "chunk", content |-> c]

\* the texts the backend answers with
Texts == {<<7>>}

\* exchanges that fail before a body is read
FailedExchanges ==
    {Outcome(t, 0, <<>>, <<>>, 0) : t \in {"timeout", "refused", "norequest"}}
    \cup {Outcome("ok", s, <<>>, <<>>, 0) : s \in {400, 401, 403, 408, 429, 500, 504}}

\* answers to a non-streaming call
Docs ==
    {<<"undecodable", <<>>>>, <<"nochoices", <<>>>>, <<"nilmessage", <<>>>>, <<"message", <<>>>>}
    \cup {<<"message", t>> : t \in Texts}

\* answers to a streaming call: the lines, and how many of them are read
Streams ==
    { <<<<>>, 0>>,
      <<<<Chunk(<<7>>), Chunk(<<8>>), Done>>, 3>>,
      <<<<Chunk(<<7>>), Chunk(<<8>>), Done>>, 1>>,
      <<<<Chunk(<<7>>), Chunk(<<8>>)>>, 2>>,
      <<<<Blank, Chunk(<<7>>), Bad, NoChoices, Chunk(<<>>), Chunk(<<8>>), Done, Chunk(<<7>>)>>, 8>> }

\* every exchange a call can meet
Outcomes(stream) ==
    FailedExchanges
    \cup (IF stream
          THEN {Outcome("ok", StatusOK, <<>>, s[1], s[2]) : s \in Streams}
               \cup {TimedOut(Outcome("ok", StatusOK, <<>>, <<Chunk(<<7>>), Chunk(<<8>>), Done>>, 1))}
          ELSE {Outcome("ok", StatusOK, d, <<>>, 0) : d \in Docs}
               \cup {TimedOut(Outcome("ok", StatusOK, <<"undecodable", <<>>>>, <<>>, 0))})

\* the exchanges met by requests served at the same time
RelayOutcomes(stream) ==
    {Outcome("ok", 429, <<>>, <<>>, 0)}
    \cup (IF stream
          THEN {Outcome("ok", StatusOK, <<>>, <<Chunk(<<7>>), Chunk(<<8>>), Done>>, 3),
                Outcome("ok", StatusOK, <<>>, <<Done>>, 1)}
          ELSE {Outcome("ok", StatusOK, <<"message", t>>, <<>>, 0) : t \in Texts})

\* GroqClient.DoRequest: the error it returns (nil with the response)
DoRequest(o) ==
    IF o.transport = "norequest" THEN NewInternalError
    ELSE IF o.transport = "timeout" THEN NewTimeoutError
    ELSE IF o.transport /= "ok" THEN NewLLMError
    ELSE IF o.status /= StatusOK
         THEN IF o.status \in {401, 403} THEN NewUnauthorizedError
              ELSE IF o.status = 429 THEN NewRateLimitError
              ELSE IF o.status \in {504, 408} THEN NewTimeoutError
              ELSE NewLLMError
    ELSE nil

\* GroqClient.Chat: the text and the error it returns
Chat(o) ==
    IF DoRequest(o) /= nil THEN [text |-> <<>>, err |-> Errorf(DoRequest(o))]
    ELSE IF o.doc[1] = "undecodable" THEN [text |-> <<>>, err |-> Errorf(ErrorsNew)]
    ELSE IF o.doc[1] = "nochoices" THEN [text |-> <<>>, err |-> ErrorsNew]
    ELSE IF o.doc[1] = "nilmessage" THEN [text |-> <<>>, err |-> ErrorsNew]
    ELSE IF o.doc[2] = <<>> THEN [text |-> <<>>, err |-> ErrorsNew]
    ELSE [text |-> o.doc[2], err |-> nil]

\* the loop of ScanStream reading on after the [DONE] marker
RECURSIVE scanLoopPastDone(_, _, _)
scanLoopPastDone(lines, got, i) ==
    IF i > got THEN [end |-> TRUE, pos |-> i, content |-> <<>>]
    ELSE IF lines[i].kind /= "chunk" \/ lines[i].content = <<>> THEN scanLoopPastDone(lines, got, i + 1)
    ELSE [end |-> FALSE, pos |-> i, content |-> lines[i].content]

\* The loop of ScanStream from line i on, up to the next call of onToken:
\* the line whose content is delivered, or the end of the loop.
RECURSIVE scanLoop(_, _, _)
scanLoop(lines, got, i) ==
    IF i > got THEN [end |-> TRUE, pos |-> i, content |-> <<>>]
    ELSE IF lines[i].kind = "blank" THEN scanLoop(lines, got, i + 1)
    ELSE IF lines[i].kind = "done" THEN [end |-> TRUE, pos |-> i, content |-> <<>>]
    ELSE IF lines[i].kind \in {"bad", "nochoices"} THEN scanLoop(lines, got, i + 1)
    ELSE IF lines[i].content = <<>> THEN scanLoop(lines, got, i + 1)
    ELSE [end |-> FALSE, pos |-> i, content |-> lines[i].content]

\* fullResponse with every content written after the first one lost
WriteStringOnce(b, content) == IF b = <<>> THEN content ELSE b

\* fullResponse.WriteString(content)
WriteString(b, content) == b \o content

\* what the sink answers: nil, or the error of its write to the caller
SinkResults == {nil, <<"write error">>}

\* a sink error that is ignored
AbortNever(w, e) == FALSE

\* a sink error that ends the delivery of every request
AbortShared(w, e) == e /= nil \/ \E v \in Workers \ {w} : sinkErr[v] /= nil

\* if err := onToken(content); err != nil { return strings.Builder{}, err }
Abort(w, e) == e /= nil

\* ------------------------------------------------------------------ the token cache
\* The CacheStore as the relay sees it: what its calls return.  An answer of
\* the cache fixes the results of the calls of one cache block:
\*   "hit"          GetTokenCount returns (count, true, nil)
\*   "get error"    GetTokenCount returns (0, false, err)
\*   "count error"  a miss, then CountTokens returns (0, err)
\*   "set error"    a miss, a count, then SetTokenCount returns err
\*   "stored"       a miss, a count, then SetTokenCount returns nil
CacheAnswers == {"hit", "get error", "count error", "set error", "stored"}

\* the error of a cache call
CacheError == <<"cache error">>

\* One call of the cache: its name, the messages and the count it is given
\* (0 where the call takes no count), and what it returns: a count (0 where
\* it returns none), found (GetTokenCount only) and an error.
CacheCall(name, msgs, given, count, found, e) ==
    [call |-> name, messages |-> msgs, given |-> given, count |-> count, found |-> found, err |-> e]

\* CountTokens: for every message the tokens of its content (one for every
\* unit of content) and 4 for role and structure
RECURSIVE CountTokens(_)
CountTokens(msgs) ==
    IF msgs = <<>> THEN 0
    ELSE CountTokens(SubSeq(msgs, 1, Len(msgs) - 1)) + Len(msgs[Len(msgs)].content) + 4

\* GetTokenCount: (count, true, nil) on a hit, (0, false, nil) on a miss,
\* (0, false, err) on an error
GetTokenCount(msgs, a) ==
    IF a = "hit" THEN CacheCall("GetTokenCount", msgs, 0, CountTokens(msgs), TRUE, nil)
    ELSE IF a = "get error" THEN CacheCall("GetTokenCount", msgs, 0, 0, FALSE, CacheError)
    ELSE CacheCall("GetTokenCount", msgs, 0, 0, FALSE, nil)

\* a cache block that computes and stores the count whatever the lookup returned
cacheBlockAlwaysCounts(store, a, msgs) ==
    IF store = "nil" THEN <<>>
    ELSE <<GetTokenCount(msgs, a),
           CacheCall("CountTokens", msgs, 0, CountTokens(msgs), FALSE, nil),
           CacheCall("SetTokenCount", msgs, CountTokens(msgs), 0, FALSE, nil)>>

\* the cache block: the calls it makes, in order, with what they return
cacheBlock(store, a, msgs) ==
    IF store = "nil" THEN <<>>
    ELSE LET get == GetTokenCount(msgs, a)
         IN  IF get.err = nil /\ get.found THEN <<get>>
             ELSE IF get.err = nil
                  THEN LET count == IF a = "count error"
                                    THEN CacheCall("CountTokens", msgs, 0, 0, FALSE, CacheError)
                                    ELSE CacheCall("CountTokens", msgs, 0, CountTokens(msgs), FALSE, nil)
                       IN  IF count.err = nil
                           THEN <<get, count,
                                  CacheCall("SetTokenCount", msgs, count.count, 0, FALSE,
                                            IF a = "set error" THEN CacheError ELSE nil)>>
                           ELSE <<get, count>>
                  ELSE <<get>>

\* the error of the last call of the cache block
cacheErr(calls) == IF calls = <<>> THEN nil ELSE calls[Len(calls)].err

\* a cache block that returns the error of a cache call to the caller
afterCacheReturns(e) == IF e /= nil THEN "failed" ELSE "call"

\* The cache block has no return and assigns to variables of its own scope
\* only: whatever its calls return, the relay goes on to the backend call.
afterCache(e) == "call"

\* ------------------------------------------------------------------ the relay, step by step
\* the first turn of the request taken for its new one
firstUserMsg(w) == req[w].Messages[1]

\* newUserMsg := req.Messages[len(req.Messages)-1]
newUserMsg(w) == req[w].Messages[Len(req[w].Messages)]

\* The requests the caller served by goroutine w sends.  Its new text is
\* <<w>>, so that the user messages of two requests in flight differ; <<0>>
\* marks the earlier turns the caller repeats.
RequestLists(w) ==
    { <<Message("user", <<w>>)>>,
      <<Message("user", <<0>>), Message("assistant", <<0>>), Message("user", <<w>>)>>,
      <<Message("user", <<w>>), Message("assistant", <<0>>)>> }

\* the requests of a caller served alone: also the other ways to be invalid
SoloRequestLists(w) ==
    RequestLists(w)
    \cup { <<>>,
           <<Message("moderator", <<0>>), Message("user", <<w>>)>>,
           <<Message("user", <<>>), Message("user", <<w>>)>> }

\* a request that fails validation goes on as if it had passed
afterValidateIgnored(e) == "read"

\* if err := req.Validate(); err != nil { return "", ... }
afterValidate(e) == IF e /= nil THEN "failed" ELSE "read"

\* the assistant message is appended whatever the backend call returned
afterCallAlwaysAppends(e) == "addAssistant"

\* if err != nil { return "", ... } after Chat / StreamChat
afterCall(e) == IF e /= nil THEN "failed" ELSE "addAssistant"

\* the whole list of the request sent after the history
llmMessagesWholeList(w) == history[w] \o req[w].Messages

\* llmMessages := append(history, newUserMsg)
llmMessages(w) == Append(history[w], newUserMsg(w))

\* the requests goroutine w is given: served alone, or with others
Requests(w, solo) == IF solo THEN SoloRequestLists(w) ELSE RequestLists(w)

\* the exchanges the call of goroutine w can meet
CallOutcomes(stream, solo) == IF solo THEN Outcomes(stream) ELSE RelayOutcomes(stream)

\* A handler calls ProcessChat or ProcessChatStream with a decoded request.
Begin(w, solo) ==
    /\ pc[w] = "idle"
    /\ started < MaxRequests
    /\ started' = started + 1
    /\ before' = [before EXCEPT ![w] = messages]
    /\ \E ms \in Requests(w, solo), st \in BOOLEAN :
           LET r == [Messages |-> ms, Stream |-> st]
               e == ValidateErr(r)
           IN  /\ req' = [req EXCEPT ![w] = r]
               /\ pc' = [pc EXCEPT ![w] = afterValidate(e)]
               /\ ret' = IF afterValidate(e) = "failed"
                         THEN [ret EXCEPT ![w] = [text |-> <<>>, err |-> Errorf(e)]]
                         ELSE ret
    /\ UNCHANGED <<history, response, cacheStore, cacheCalls, sent, exch, pos, full, sink, sinkErr, err>>
    /\ UNCHANGED <<storeVars, callVars, trimVars, validateVars, rwVars, heapVars, keyVars, httpVars>>

\* history := s.messageStore.GetMessages()
ReadHistory(w) ==
    /\ pc[w] = "read"
    /\ history' = [history EXCEPT ![w] = messages]
    /\ pc' = [pc EXCEPT ![w] = "addUser"]
    /\ UNCHANGED <<req, response, started, cacheStore, before, cacheCalls, sent, exch, pos, full, sink, sinkErr, err, ret>>
    /\ UNCHANGED <<storeVars, callVars, trimVars, validateVars, rwVars, heapVars, keyVars, httpVars>>

\* s.messageStore.AddMessage(newUserMsg)
AppendUser(w) ==
    /\ pc[w] = "addUser"
    /\ AddMessage(newUserMsg(w))
    /\ pc' = [pc EXCEPT ![w] = "cache"]
    /\ UNCHANGED <<req, history, response, started, cacheStore, before, cacheCalls, sent, exch, pos, full, sink, sinkErr, err, ret>>
    /\ UNCHANGED <<callVars, trimVars, validateVars, rwVars, heapVars, keyVars, httpVars>>

\* response, err := ...; if err != nil { return "", fmt.Errorf("groq API error: %w", err) }
Resolve(w, text, e) ==
    /\ response' = [response EXCEPT ![w] = text]
    /\ err' = [err EXCEPT ![w] = e]
    /\ pc' = [pc EXCEPT ![w] = afterCall(e)]
    /\ ret' = IF afterCall(e) = "failed"
              THEN [ret EXCEPT ![w] = [text |-> <<>>, err |-> Errorf(e)]]
              ELSE ret

\* llmMessages := append(history, newUserMsg) and the cache block
\* (if s.cacheStore != nil { ... })
CacheBlock(w) ==
    /\ pc[w] = "cache"
    /\ \E a \in CacheAnswers :
           LET calls == cacheBlock(cacheStore, a, llmMessages(w))
           IN  /\ cacheCalls' = [cacheCalls EXCEPT ![w] = calls]
               /\ pc' = [pc EXCEPT ![w] = afterCache(cacheErr(calls))]
               /\ ret' = IF afterCache(cacheErr(calls)) = "failed"
                         THEN [ret EXCEPT ![w] = [text |-> <<>>, err |-> Errorf(cacheErr(calls))]]
                         ELSE ret
    /\ UNCHANGED <<req, history, response, started, cacheStore, before, sent, exch, pos, full, sink, sinkErr, err>>
    /\ UNCHANGED <<storeVars, callVars, trimVars, validateVars, rwVars, heapVars, keyVars, httpVars>>

\* The call of the backend client with llmMessages: Chat as a whole,
\* StreamChat up to the scanner.
BackendCall(w, solo) ==
    /\ pc[w] = "call"
    /\ sent' = [sent EXCEPT ![w] = llmMessages(w)]
    /\ \E o \in CallOutcomes(req[w].Stream, solo) :
           /\ exch' = [exch EXCEPT ![w] = o]
           /\ IF ~req[w].Stream
              THEN Resolve(w, Chat(o).text, Chat(o).err)
              ELSE IF DoRequest(o) /= nil
                   THEN Resolve(w, <<>>, Errorf(DoRequest(o)))
                   ELSE /\ pc' = [pc EXCEPT ![w] = "scan"]
                        /\ UNCHANGED <<response, err, ret>>
    /\ UNCHANGED <<req, history, started, cacheStore, before, cacheCalls, pos, full, sink, sinkErr>>
    /\ UNCHANGED <<storeVars, callVars, trimVars, validateVars, rwVars, heapVars, keyVars, httpVars>>

\* ScanStream up to and including its next call of onToken, or to its end;
\* at the end StreamChat returns fullResponse.String().
Deliver(w) ==
    /\ pc[w] = "scan"
    /\ LET n == scanLoop(exch[w].lines, exch[w].got, pos[w] + 1)
       IN  IF n.end
           THEN /\ Resolve(w, full[w], nil)
                /\ UNCHANGED <<pos, full, sink, sinkErr>>
           ELSE /\ full' = [full EXCEPT ![w] = WriteString(full[w], n.content)]
                /\ sink' = [sink EXCEPT ![w] = Append(sink[w], n.content)]
                /\ pos' = [pos EXCEPT ![w] = n.pos]
                /\ \E e \in SinkResults :
                       /\ sinkErr' = [sinkErr EXCEPT ![w] = e]
                       /\ IF Abort(w, e)
                          THEN Resolve(w, <<>>, Errorf(e))
                          ELSE UNCHANGED <<response, err, pc, ret>>
    /\ UNCHANGED <<req, history, started, cacheStore, before, cacheCalls, sent, exch>>
    /\ UNCHANGED <<storeVars, callVars, trimVars, validateVars, rwVars, heapVars, keyVars, httpVars>>

\* s.messageStore.AddMessage(assistantMsg); return response, nil
AppendAssistant(w) ==
    /\ pc[w] = "addAssistant"
    /\ AddMessage(Message("assistant", response[w]))
    /\ pc' = [pc EXCEPT ![w] = "done"]
    /\ ret' = [ret EXCEPT ![w] = [text |-> response[w], err |-> nil]]
    /\ UNCHANGED <<req, history, response, started, cacheStore, before, cacheCalls, sent, exch, pos, full, sink, sinkErr, err>>
    /\ UNCHANGED <<callVars, trimVars, validateVars, rwVars, heapVars, keyVars, httpVars>>

\* the handler has the result; the goroutine serves the next request
Return(w) ==
    /\ pc[w] \in {"done", "failed"}
    /\ pc' = [pc EXCEPT ![w] = "idle"]
    /\ req' = [req EXCEPT ![w] = NoRequest]
    /\ history' = [history EXCEPT ![w] = <<>>]
    /\ response' = [response EXCEPT ![w] = <<>>]
    /\ before' = [before EXCEPT ![w] = <<>>]
    /\ cacheCalls' = [cacheCalls EXCEPT ![w] = <<>>]
    /\ sent' = [sent EXCEPT ![w] = <<>>]
    /\ exch' = [exch EXCEPT ![w] = NoOutcome]
    /\ pos' = [pos EXCEPT ![w] = 0]
    /\ full' = [full EXCEPT ![w] = <<>>]
    /\ sink' = [sink EXCEPT ![w] = <<>>]
    /\ sinkErr' = [sinkErr EXCEPT ![w] = nil]
    /\ err' = [err EXCEPT ![w] = nil]
    /\ ret' = [ret EXCEPT ![w] = NoReturn]
    /\ UNCHANGED <<started, cacheStore>>
    /\ UNCHANGED <<storeVars, callVars, trimVars, validateVars, rwVars, heapVars, keyVars, httpVars>>

\* NewChatService(messageStore, cacheStore, llmClient, maxTokens)
NewChatService(store) ==
    /\ pc = [w \in Workers |-> "idle"]
    /\ req = [w \in Workers |-> NoRequest]
    /\ history = [w \in Workers |-> <<>>]
    /\ response = [w \in Workers |-> <<>>]
    /\ started = 0
    /\ cacheStore = store
    /\ before = [w \in Workers |-> <<>>]
    /\ cacheCalls = [w \in Workers |-> <<>>]
    /\ sent = [w \in Workers |-> <<>>]
    /\ exch = [w \in Workers |-> NoOutcome]
    /\ pos = [w \in Workers |-> 0]
    /\ full = [w \in Workers |-> <<>>]
    /\ sink = [w \in Workers |-> <<>>]
    /\ sinkErr = [w \in Workers |-> nil]
    /\ err = [w \in Workers |-> nil]
    /\ ret = [w \in Workers |-> NoReturn]

\* The service runs without a cache here: the cache block touches nothing
\* two requests share (SpecSolo runs it).
Init ==
    /\ \E n \in 0 .. MaxN : NewMemoryStore(n)
    /\ NewChatService("nil")
    /\ TrimIdle
    /\ ValidateIdle
    /\ RWIdle
    /\ HeapIdle
    /\ KeyIdle
    /\ HTTPIdle

Next ==
    \E w \in Workers :
        \/ Begin(w, FALSE)
        \/ ReadHistory(w)
        \/ AppendUser(w)
        \/ CacheBlock(w)
        \/ BackendCall(w, FALSE)
        \/ Deliver(w)
        \/ AppendAssistant(w)
        \/ Return(w)

Spec == Init /\ [][Next]_vars

\* ------------------------------------------------------------------ the relay, one request at a time
\* One goroutine: no request is served while another is in flight.
InitSolo ==
    /\ \E n \in 0 .. MaxN : NewMemoryStore(n)
    /\ \E store \in {"nil", "redis"} : NewChatService(store)
    /\ TrimIdle
    /\ ValidateIdle
    /\ RWIdle
    /\ HeapIdle
    /\ KeyIdle
    /\ HTTPIdle

NextSolo ==
    \/ Begin(1, TRUE)
    \/ ReadHistory(1)
    \/ AppendUser(1)
    \/ CacheBlock(1)
    \/ BackendCall(1, TRUE)
    \/ Deliver(1)
    \/ AppendAssistant(1)
    \/ Return(1)

SpecSolo == InitSolo /\ [][NextSolo]_vars

\* ------------------------------------------------------------------ the store, called concurrently
\* sync.RWMutex.  Lock() first takes the writers' mutex (from then on RLock()
\* blocks), then waits until the readers inside have left; RLock() enters
\* when no writer holds or awaits the lock.

\* NoWriter of a lock that never excludes
NoWriterNeverBlocks(m) == TRUE

\* NoReaders of a lock whose writers do not wait for the readers
NoReadersNeverWaits(m) == TRUE

\* no writer holds or awaits the lock
NoWriter(m) == m.w = 0

\* the readers inside have left
NoReaders(m) == m.readers = {}

\* a caller enters AddMessage(msg), GetMessages() or Clear()
CallAddMessage(c) ==
    /\ spc[c] = "idle"
    /\ nCalls < MaxCalls
    /\ nCalls' = nCalls + 1
    /\ \E msg \in {Message(r, <<c>>) : r \in Roles} :
           /\ sarg' = [sarg EXCEPT ![c] = msg]
           /\ added' = added (+) SetToBag({msg})
    /\ spc' = [spc EXCEPT ![c] = "add:Lock"]
    /\ UNCHANGED <<mu, tmp, result, committed, dropped, cleared>>
    /\ UNCHANGED <<storeVars, callVars, trimVars, validateVars, relayVars, heapVars, keyVars, httpVars>>

CallGetMessages(c) ==
    /\ spc[c] = "idle"
    /\ nCalls < MaxCalls
    /\ nCalls' = nCalls + 1
    /\ spc' = [spc EXCEPT ![c] = "get:RLock"]
    /\ UNCHANGED <<mu, sarg, tmp, result, committed, added, dropped, cleared>>
    /\ UNCHANGED <<storeVars, callVars, trimVars, validateVars, relayVars, heapVars, keyVars, httpVars>>

CallClear(c) ==
    /\ spc[c] = "idle"
    /\ nCalls < MaxCalls
    /\ nCalls' = nCalls + 1
    /\ cleared' = TRUE
    /\ spc' = [spc EXCEPT ![c] = "clear:Lock"]
    /\ UNCHANGED <<mu, sarg, tmp, result, committed, added, dropped>>
    /\ UNCHANGED <<storeVars, callVars, trimVars, validateVars, relayVars, heapVars, keyVars, httpVars>>

\* s.mu.Lock(), first half: take the writers' mutex
Lock(c) ==
    /\ spc[c] \in {"add:Lock", "clear:Lock"}
    /\ NoWriter(mu)
    /\ mu' = [mu EXCEPT !.w = c]
    /\ spc' = [spc EXCEPT ![c] = IF spc[c] = "add:Lock" THEN "add:wait" ELSE "clear:wait"]
    /\ UNCHANGED <<sarg, tmp, result, committed, added, dropped, cleared, nCalls>>
    /\ UNCHANGED <<storeVars, callVars, trimVars, validateVars, relayVars, heapVars, keyVars, httpVars>>

\* s.mu.Lock(), second half: wait for the readers to leave
LockAcquired(c) ==
    /\ spc[c] \in {"add:wait", "clear:wait"}
    /\ NoReaders(mu)
    /\ spc' = [spc EXCEPT ![c] = IF spc[c] = "add:wait" THEN "add:read" ELSE "clear:write"]
    /\ UNCHANGED <<mu, sarg, tmp, result, committed, added, dropped, cleared, nCalls>>
    /\ UNCHANGED <<storeVars, callVars, trimVars, validateVars, relayVars, heapVars, keyVars, httpVars>>

\* append(s.messages, msg): read s.messages
AddRead(c) ==
    /\ spc[c] = "add:read"
    /\ tmp' = [tmp EXCEPT ![c] = messages]
    /\ spc' = [spc EXCEPT ![c] = "add:write"]
    /\ UNCHANGED <<mu, sarg, result, committed, added, dropped, cleared, nCalls>>
    /\ UNCHANGED <<storeVars, callVars, trimVars, validateVars, relayVars, heapVars, keyVars, httpVars>>

\* s.messages = append(...)
AddWrite(c) ==
    /\ spc[c] = "add:write"
    /\ messages' = Append(tmp[c], sarg[c])
    /\ tmp' = [tmp EXCEPT ![c] = <<>>]
    /\ sarg' = [sarg EXCEPT ![c] = NoMessage]
    /\ spc' = [spc EXCEPT ![c] = "add:trim"]
    /\ UNCHANGED <<mu, result, committed, added, dropped, cleared, nCalls>>
    /\ UNCHANGED <<maxExchanges, pre, callVars, trimVars, validateVars, relayVars, heapVars, keyVars, httpVars>>

\* s.trimToMaxExchanges()
AddTrim(c) ==
    /\ spc[c] = "add:trim"
    /\ messages' = trimToMaxExchanges(messages, maxExchanges)
    /\ dropped' = dropped + (Len(messages) - Len(messages'))
    /\ spc' = [spc EXCEPT ![c] = "add:Unlock"]
    /\ UNCHANGED <<mu, sarg, tmp, result, committed, added, cleared, nCalls>>
    /\ UNCHANGED <<maxExchanges, pre, callVars, trimVars, validateVars, relayVars, heapVars, keyVars, httpVars>>

\* s.messages = make([]Message, 0)
ClearWrite(c) ==
    /\ spc[c] = "clear:write"
    /\ messages' = <<>>
    /\ spc' = [spc EXCEPT ![c] = "clear:Unlock"]
    /\ UNCHANGED <<mu, sarg, tmp, result, committed, added, dropped, cleared, nCalls>>
    /\ UNCHANGED <<maxExchanges, pre, callVars, trimVars, validateVars, relayVars, heapVars, keyVars, httpVars>>

\* defer s.mu.Unlock(), and the call returns
Unlock(c) ==
    /\ spc[c] \in {"add:Unlock", "clear:Unlock"}
    /\ mu' = [mu EXCEPT !.w = 0]
    /\ committed' = messages
    /\ spc' = [spc EXCEPT ![c] = "idle"]
    /\ UNCHANGED <<sarg, tmp, result, added, dropped, cleared, nCalls>>
    /\ UNCHANGED <<storeVars, callVars, trimVars, validateVars, relayVars, heapVars, keyVars, httpVars>>

\* s.mu.RLock()
RLock(c) ==
    /\ spc[c] = "get:RLock"
    /\ NoWriter(mu)
    /\ mu' = [mu EXCEPT !.readers = @ \cup {c}]
    /\ spc' = [spc EXCEPT ![c] = "get:copy"]
    /\ UNCHANGED <<sarg, tmp, result, committed, added, dropped, cleared, nCalls>>
    /\ UNCHANGED <<storeVars, callVars, trimVars, validateVars, relayVars, heapVars, keyVars, httpVars>>

\* result := make([]Message, len(s.messages)); copy(result, s.messages)
GetCopy(c) ==
    /\ spc[c] = "get:copy"
    /\ result' = [result EXCEPT ![c] = messages]
    /\ spc' = [spc EXCEPT ![c] = "get:RUnlock"]
    /\ UNCHANGED <<mu, sarg, tmp, committed, added, dropped, cleared, nCalls>>
    /\ UNCHANGED <<storeVars, callVars, trimVars, validateVars, relayVars, heapVars, keyVars, httpVars>>

\* defer s.mu.RUnlock(), and the call returns result, which the caller drops
RUnlock(c) ==
    /\ spc[c] = "get:RUnlock"
    /\ mu' = [mu EXCEPT !.readers = @ \ {c}]
    /\ result' = [result EXCEPT ![c] = <<>>]
    /\ spc' = [spc EXCEPT ![c] = "idle"]
    /\ UNCHANGED <<sarg, tmp, committed, added, dropped, cleared, nCalls>>
    /\ UNCHANGED <<storeVars, callVars, trimVars, validateVars, relayVars, heapVars, keyVars, httpVars>>

InitRW ==
    /\ \E n \in {0, 1} : NewMemoryStore(n)
    /\ TrimIdle
    /\ ValidateIdle
    /\ RelayIdle
    /\ RWIdle
    /\ HeapIdle
    /\ KeyIdle
    /\ HTTPIdle

NextRW ==
    \E c \in Callers :
        \/ CallAddMessage(c)
        \/ CallGetMessages(c)
        \/ CallClear(c)
        \/ Lock(c)
        \/ LockAcquired(c)
        \/ AddRead(c)
        \/ AddWrite(c)
        \/ AddTrim(c)
        \/ ClearWrite(c)
        \/ Unlock(c)
        \/ RLock(c)
        \/ GetCopy(c)
        \/ RUnlock(c)

SpecRW == InitRW /\ [][NextRW]_vars

\* ------------------------------------------------------------------ the relay, with the store's lock
\* ProcessChat and ProcessChatStream as in Spec, their calls of the store
\* taken apart as in SpecRW: goroutine w is caller w of the store.

\* the write lock kept when AddMessage returns
UnlockLeftToCaller(m) == m

\* defer s.mu.Unlock()
Unlocked(m) == [m EXCEPT !.w = 0]

\* the read lock kept when GetMessages returns
RUnlockLeftToCaller(m, c) == m

\* defer s.mu.RUnlock()
RUnlocked(m, c) == [m EXCEPT !.readers = @ \ {c}]

\* history := s.messageStore.GetMessages(): the call is entered
EnterGetMessages(w) ==
    /\ pc[w] = "read"
    /\ spc[w] = "idle"
    /\ spc' = [spc EXCEPT ![w] = "get:RLock"]
    /\ UNCHANGED <<mu, sarg, tmp, result, committed, added, dropped, cleared, nCalls>>
    /\ UNCHANGED <<storeVars, callVars, trimVars, validateVars, relayVars, heapVars, keyVars, httpVars>>

\* GetMessages returns: the read lock is released, history is the copy
LeaveGetMessages(w) ==
    /\ spc[w] = "get:RUnlock"
    /\ mu' = RUnlocked(mu, w)
    /\ history' = [history EXCEPT ![w] = result[w]]
    /\ result' = [result EXCEPT ![w] = <<>>]
    /\ spc' = [spc EXCEPT ![w] = "idle"]
    /\ pc' = [pc EXCEPT ![w] = "addUser"]
    /\ UNCHANGED <<sarg, tmp, committed, added, dropped, cleared, nCalls>>
    /\ UNCHANGED <<req, response, started, cacheStore, before, cacheCalls, sent, exch, pos, full, sink, sinkErr, err, ret>>
    /\ UNCHANGED <<storeVars, callVars, trimVars, validateVars, heapVars, keyVars, httpVars>>

\* s.messageStore.AddMessage(newUserMsg) or AddMessage(assistantMsg): the
\* call is entered
EnterAddMessage(w) ==
    /\ pc[w] \in {"addUser", "addAssistant"}
    /\ spc[w] = "idle"
    /\ sarg' = [sarg EXCEPT ![w] = IF pc[w] = "addUser" THEN newUserMsg(w)
                                   ELSE Message("assistant", response[w])]
    /\ spc' = [spc EXCEPT ![w] = "add:Lock"]
    /\ UNCHANGED <<mu, tmp, result, committed, added, dropped, cleared, nCalls>>
    /\ UNCHANGED <<storeVars, callVars, trimVars, validateVars, relayVars, heapVars, keyVars, httpVars>>

\* AddMessage returns: the write lock is released; after the assistant
\* message, return response, nil
LeaveAddMessage(w) ==
    /\ spc[w] = "add:Unlock"
    /\ mu' = Unlocked(mu)
    /\ committed' = messages
    /\ spc' = [spc EXCEPT ![w] = "idle"]
    /\ pc' = [pc EXCEPT ![w] = IF pc[w] = "addUser" THEN "cache" ELSE "done"]
    /\ ret' = IF pc[w] = "addUser" THEN ret
              ELSE [ret EXCEPT ![w] = [text |-> response[w], err |-> nil]]
    /\ UNCHANGED <<sarg, tmp, result, added, dropped, cleared, nCalls>>
    /\ UNCHANGED <<req, history, response, started, cacheStore, before, cacheCalls, sent, exch, pos, full, sink, sinkErr, err>>
    /\ UNCHANGED <<storeVars, callVars, trimVars, validateVars, heapVars, keyVars, httpVars>>

InitLocked ==
    /\ \E n \in {0, 1} : NewMemoryStore(n)
    /\ NewChatService("redis")
    /\ TrimIdle
    /\ ValidateIdle
    /\ RWIdle
    /\ HeapIdle
    /\ KeyIdle
    /\ HTTPIdle

NextLocked ==
    \E w \in Workers :
        \/ Begin(w, FALSE)
        \/ EnterGetMessages(w)
        \/ RLock(w)
        \/ GetCopy(w)
        \/ LeaveGetMessages(w)
        \/ EnterAddMessage(w)
        \/ Lock(w)
        \/ LockAcquired(w)
        \/ AddRead(w)
        \/ AddWrite(w)
        \/ AddTrim(w)
        \/ LeaveAddMessage(w)
        \/ CacheBlock(w)
        \/ BackendCall(w, FALSE)
        \/ Deliver(w)
        \/ Return(w)

SpecLocked == InitLocked /\ [][NextLocked]_vars

\* ------------------------------------------------------------------ the relay, the lock and Clear, scheduled fairly
\* The requests of SpecLocked and a third goroutine that calls Clear() again
\* and again.

\* the goroutine that calls Clear
Clearer == 3

\* Clear() is entered
EnterClear(c) ==
    /\ spc[c] = "idle"
    /\ cleared' = TRUE
    /\ spc' = [spc EXCEPT ![c] = "clear:Lock"]
    /\ UNCHANGED <<mu, sarg, tmp, result, committed, added, dropped, nCalls>>
    /\ UNCHANGED <<storeVars, callVars, trimVars, validateVars, relayVars, heapVars, keyVars, httpVars>>

\* A handler calls ProcessChat or ProcessChatStream with a valid request of
\* one user turn.
Arrive(w) ==
    /\ pc[w] = "idle"
    /\ started < MaxRequests
    /\ started' = started + 1
    /\ before' = [before EXCEPT ![w] = messages]
    /\ \E st \in BOOLEAN :
           LET r == [Messages |-> <<Message("user", <<w>>)>>, Stream |-> st]
               e == ValidateErr(r)
           IN  /\ req' = [req EXCEPT ![w] = r]
               /\ pc' = [pc EXCEPT ![w] = afterValidate(e)]
               /\ ret' = IF afterValidate(e) = "failed"
                         THEN [ret EXCEPT ![w] = [text |-> <<>>, err |-> Errorf(e)]]
                         ELSE ret
    /\ UNCHANGED <<history, response, cacheStore, cacheCalls, sent, exch, pos, full, sink, sinkErr, err>>
    /\ UNCHANGED <<storeVars, callVars, trimVars, validateVars, rwVars, heapVars, keyVars, httpVars>>

\* the steps of request goroutine w that wait for nothing but the scheduler:
\* the code between two calls, and the calls of the cache, the backend client
\* and the sink, which return
Runs(w) ==
    \/ EnterGetMessages(w)
    \/ GetCopy(w)
    \/ LeaveGetMessages(w)
    \/ EnterAddMessage(w)
    \/ LockAcquired(w)
    \/ AddRead(w)
    \/ AddWrite(w)
    \/ AddTrim(w)
    \/ LeaveAddMessage(w)
    \/ CacheBlock(w)
    \/ BackendCall(w, FALSE)
    \/ Deliver(w)

\* the steps of Clear() once it has the writers' mutex
Clears(c) == LockAcquired(c) \/ ClearWrite(c) \/ Unlock(c)

InitLive ==
    /\ NewMemoryStore(1)
    /\ NewChatService("nil")
    /\ TrimIdle
    /\ ValidateIdle
    /\ RWIdle
    /\ HeapIdle
    /\ KeyIdle
    /\ HTTPIdle

NextLive ==
    \/ \E w \in Workers :
           \/ Arrive(w)
           \/ Runs(w)
           \/ RLock(w)
           \/ Lock(w)
           \/ Return(w)
    \/ EnterClear(Clearer)
    \/ Lock(Clearer)
    \/ Clears(Clearer)

\* A goroutine that can run does run (the Go scheduler), and a goroutine
\* blocked in Lock() or RLock() gets the lock if the lock is free again and
\* again (sync.Mutex hands the lock to a waiter that has waited long, and a
\* pending Lock() of a sync.RWMutex keeps later readers out).  Nothing
\* obliges a request to arrive, a caller to pick up its result, or Clear to
\* be called.
FairLive ==
    /\ \A w \in Workers : WF_vars(Runs(w)) /\ SF_vars(RLock(w)) /\ SF_vars(Lock(w))
    /\ WF_vars(Clears(Clearer))

SpecLive == InitLive /\ [][NextLive]_vars /\ FairLive

\* ------------------------------------------------------------------ the store on the Go heap
ZeroMessage == Message("", <<>>)

\* n zero values
Zeros(n) == [i \in 1 .. n |-> ZeroMessage]

\* make([]Message, n): a new array of n zero values; [heap, slice]
Make(h, n) == [heap |-> Append(h, Zeros(n)), slice |-> Slice(Len(h) + 1, 0, n)]

\* append(s, m): in place when the capacity allows, else into a new array of
\* twice the capacity (1 for none); [heap, slice]
GoAppend(h, s, m) ==
    IF s.len < Cap(h, s)
    THEN [heap |-> [h EXCEPT ![s.arr][s.off + s.len + 1] = m],
          slice |-> Slice(s.arr, s.off, s.len + 1)]
    ELSE LET newcap == IF Cap(h, s) = 0 THEN 1 ELSE 2 * Cap(h, s)
             grown == View(h, s) \o <<m>> \o Zeros(newcap - s.len - 1)
         IN  [heap |-> Append(h, grown), slice |-> Slice(Len(h) + 1, 0, s.len + 1)]

\* GetMessages that returns s.messages itself
CopyOutAliased(h, s) == [heap |-> h, slice |-> s]

\* result := make([]Message, len(s.messages)); copy(result, s.messages); [heap, slice]
CopyOut(h, s) ==
    LET made == Make(h, s.len)
    IN  [heap |-> [made.heap EXCEPT ![made.slice.arr] = View(h, s)], slice |-> made.slice]

\* the arrays no slice of `live` points into are freed
Collect(h, live) ==
    [a \in DOMAIN h |-> IF \E s \in live : s.arr = a THEN h[a] ELSE <<>>]

\* AddMessage: s.messages = append(s.messages, msg), then the trimming pass
\* reslices, s.messages = s.messages[startIndex:]
HeapAddMessage ==
    /\ hsteps < MaxHeapSteps
    /\ hsteps' = hsteps + 1
    /\ \E msg \in {Message(r, <<hsteps + 1>>) : r \in Roles} :
           LET app == GoAppend(heap, sl, msg)
               kept == trimToMaxExchanges(View(app.heap, app.slice), maxExchanges)
               startIndex == app.slice.len - Len(kept)
               trimmed == Slice(app.slice.arr, app.slice.off + startIndex, Len(kept))
           IN  /\ sl' = trimmed
               /\ heap' = Collect(app.heap, {trimmed, snap})
               /\ AddMessage(msg)
    /\ UNCHANGED <<snap, snapValue>>
    /\ UNCHANGED <<callVars, trimVars, validateVars, relayVars, rwVars, keyVars, httpVars>>

\* GetMessages, and the caller keeps what it returns
HeapGetMessages ==
    /\ hsteps < MaxHeapSteps
    /\ hsteps' = hsteps + 1
    /\ LET out == CopyOut(heap, sl)
       IN  /\ snap' = out.slice
           /\ snapValue' = View(heap, sl)
           /\ heap' = Collect(out.heap, {sl, out.slice})
    /\ UNCHANGED sl
    /\ UNCHANGED <<storeVars, callVars, trimVars, validateVars, relayVars, rwVars, keyVars, httpVars>>

\* Clear: s.messages = make([]Message, 0)
HeapClear ==
    /\ hsteps < MaxHeapSteps
    /\ hsteps' = hsteps + 1
    /\ sl.len > 0
    /\ LET made == Make(heap, 0)
       IN  /\ sl' = made.slice
           /\ heap' = Collect(made.heap, {made.slice, snap})
    /\ Clear
    /\ UNCHANGED <<snap, snapValue>>
    /\ UNCHANGED <<callVars, trimVars, validateVars, relayVars, rwVars, keyVars, httpVars>>

\* the caller overwrites an element of the slice it got
CallerWrites ==
    /\ hsteps < MaxHeapSteps
    /\ hsteps' = hsteps + 1
    /\ snap /= NoSlice
    /\ \E i \in 1 .. snap.len :
           LET m == Message("assistant", <<0>>)
           IN  /\ heap' = [heap EXCEPT ![snap.arr][snap.off + i] = m]
               /\ snapValue' = [snapValue EXCEPT ![i] = m]
    /\ UNCHANGED <<sl, snap>>
    /\ UNCHANGED <<storeVars, callVars, trimVars, validateVars, relayVars, rwVars, keyVars, httpVars>>

\* llmMessages := append(history, newUserMsg): the caller extends the slice it got
CallerAppends ==
    /\ hsteps < MaxHeapSteps
    /\ hsteps' = hsteps + 1
    /\ snap /= NoSlice
    /\ LET app == GoAppend(heap, snap, Message("user", <<0>>))
       IN  /\ snap' = app.slice
           /\ snapValue' = Append(snapValue, Message("user", <<0>>))
           /\ heap' = Collect(app.heap, {sl, app.slice})
    /\ UNCHANGED sl
    /\ UNCHANGED <<storeVars, callVars, trimVars, validateVars, relayVars, rwVars, keyVars, httpVars>>

InitHeap ==
    /\ \E n \in {0, 1} : NewMemoryStore(n)
    /\ TrimIdle
    /\ ValidateIdle
    /\ RelayIdle
    /\ RWIdle
    /\ HeapIdle
    /\ KeyIdle
    /\ HTTPIdle

NextHeap ==
    \/ HeapAddMessage
    \/ HeapGetMessages
    \/ HeapClear
    \/ CallerWrites
    \/ CallerAppends

SpecHeap == InitHeap /\ [][NextHeap]_vars

\* ------------------------------------------------------------------ the cache key
\* RedisStore.getCacheKey, applied to two message lists side by side.  The
\* contents of the messages are text decoded by encoding/json: the turns of
\* a request by the handlers' decoders, the assistant's text by the
\* backend client's.

\* The characters of a content as they arrive in a JSON string, after the
\* escapes are resolved: a letter, the double quote, the backslash, and two
\* bytes that are not valid UTF-8.
RawChars == {"a", "quote", "backslash", "0xFF", "0xFE"}

\* a decoder that keeps the bytes it is given
unquoteCharKept(c) == c

\* encoding/json, decoding a string: invalid UTF-8 is replaced by U+FFFD
unquoteChar(c) == IF c \in {"0xFF", "0xFE"} THEN "U+FFFD" ELSE c

unquote(raw) == [i \in 1 .. Len(raw) |-> unquoteChar(raw[i])]

\* encoding/json, encoding a string: the quote and the backslash are
\* escaped, a byte that is not valid UTF-8 is written as the six
\* characters of the escape (backslash, u, f, f, f, d),
\* every other character (U+FFFD too) as it is
appendChar(c) ==
    IF c = "quote" THEN <<"backslash", "quote">>
    ELSE IF c = "backslash" THEN <<"backslash", "backslash">>
    ELSE IF c \in {"0xFF", "0xFE"} THEN <<"backslash", "u", "f", "f", "f", "d">>
    ELSE <<c>>

RECURSIVE appendChars(_, _)
appendChars(s, i) == IF i > Len(s) THEN <<>> ELSE appendChar(s[i]) \o appendChars(s, i + 1)

appendString(s) == <<"quote">> \o appendChars(s, 1) \o <<"quote">>

\* a role that passed Validate has no character that is escaped
appendRole(r) == <<"quote", r, "quote">>

\* a Message: {"role":...,"content":...}, the fields in the order of the struct
marshalMessage(m) ==
    <<"{", "role", ":">> \o appendRole(m.role) \o <<",", "content", ":">> \o appendString(m.content) \o <<"}">>

RECURSIVE marshalElements(_, _)
marshalElements(msgs, i) ==
    IF i > Len(msgs) THEN <<>>
    ELSE (IF i > 1 THEN <<",">> ELSE <<>>) \o marshalMessage(msgs[i]) \o marshalElements(msgs, i + 1)

\* data, _ := json.Marshal(messages)
Marshal(msgs) == <<"[">> \o marshalElements(msgs, 1) \o <<"]">>

\* sha256.Sum256(data) and hex.EncodeToString(hash[:]): the digest is the
\* term of its input, so that two digests are equal only for equal inputs
Sum256(data) == <<"sha256", data>>
EncodeToString(hash) == <<"hex", hash>>

\* fmt.Sprintf("token_count:%s", ...)
getCacheKey(msgs) == <<"token_count:", EncodeToString(Sum256(Marshal(msgs)))>>

\* a decoded turn is added to list i
KeyReceive(i) ==
    /\ Len(keyed[i]) < MaxKeyTurns
    /\ \E r \in Roles, raw \in SeqsUpTo(RawChars, MaxContent) :
           keyed' = [keyed EXCEPT ![i] = Append(@, Message(r, unquote(raw)))]
    /\ keys' = <<NoKey, NoKey>>
    /\ UNCHANGED <<storeVars, callVars, trimVars, validateVars, relayVars, rwVars, heapVars, httpVars>>

\* key := r.getCacheKey(messages), for both lists
KeyDerive ==
    /\ keys = <<NoKey, NoKey>>
    /\ Len(keyed[1]) > 0
    /\ Len(keyed[2]) > 0
    /\ keys' = <<getCacheKey(keyed[1]), getCacheKey(keyed[2])>>
    /\ UNCHANGED keyed
    /\ UNCHANGED <<storeVars, callVars, trimVars, validateVars, relayVars, rwVars, heapVars, httpVars>>

InitKey ==
    /\ NewMemoryStore(0)
    /\ TrimIdle
    /\ ValidateIdle
    /\ RelayIdle
    /\ RWIdle
    /\ HeapIdle
    /\ KeyIdle
    /\ HTTPIdle

NextKey ==
    \/ \E i \in {1, 2} : KeyReceive(i)
    \/ KeyDerive

SpecKey == InitKey /\ [][NextKey]_vars

\* ------------------------------------------------------------------ the HTTP handlers
\* ChatHandler and the handler it selects, serving one request at a time on
\* top of the relay.  In the relay's req, Stream says which method the
\* handler calls: ProcessChatStream (SSE and WebSocket, which set
\* req.Stream = true) or ProcessChat (JSON).

\* AppError.StatusCode, as the constructors set it
StatusCode(type) ==
    IF type = "validation_error" THEN 400
    ELSE IF type = "timeout_error" THEN 504
    ELSE IF type = "llm_error" THEN 502
    ELSE IF type = "rate_limit_error" THEN 429
    ELSE IF type = "unauthorized_error" THEN 401
    ELSE 500

\* GetHTTPStatusCode(err); errors.Is(err, errors.New(...)) is never true
GetHTTPStatusCode(e) ==
    IF e = nil THEN StatusOK
    ELSE IF As(e) /= "none" THEN StatusCode(As(e))
    ELSE 500

\* NewErrorResponse(err): the type of the error response
NewErrorResponse(e) == IF As(e) /= "none" THEN As(e) ELSE "internal_error"

\* what a handler writes to the client: a token, the completion marker
\* (data: [DONE] / {"done":"true"}), an error response, or the JSON response
TokenMessage(token) == [kind |-> "token", body |-> token]
DoneMessage == [kind |-> "done", body |-> <<>>]
ErrorMessage(e) == [kind |-> "error", body |-> <<NewErrorResponse(e)>>]
ResponseMessage(text) == [kind |-> "response", body |-> text]

\* the writes of the sink the handler gave to ProcessChatStream, one for
\* each call of onToken
TokenWrites(tokens) == [i \in 1 .. Len(tokens) |-> TokenMessage(tokens[i])]

\* a handler that writes the completion marker whatever ProcessChatStream returned
closingAlwaysDone(e) == IF e /= nil THEN <<ErrorMessage(e), DoneMessage>> ELSE <<DoneMessage>>

\* after ProcessChatStream: if err != nil { write the error response; return };
\* write the completion marker
closing(e) == IF e /= nil THEN <<ErrorMessage(e)>> ELSE <<DoneMessage>>

\* the status line sent before ProcessChatStream is called: the SSE handler
\* flushes its headers (200), the WebSocket handler has upgraded (101); the
\* JSON handler has sent nothing
statusBeforeCall(sh) == IF sh = "sse" THEN StatusOK ELSE IF sh = "ws" THEN 101 ELSE 0

\* ChatHandler selects handleJSONChat, handleSSEChat or handleWebSocketChat,
\* which decodes the body (the first message, on a WebSocket).  A body that
\* cannot be decoded is answered at once.
ChatHandler ==
    /\ hpc \in {"idle", "rejected", "responded"}
    /\ pc[1] = "idle"
    /\ started < MaxRequests
    /\ \E sh \in {"json", "sse", "ws"}, decoded \in BOOLEAN :
           /\ shape' = sh
           /\ IF decoded
              THEN /\ hpc' = "accepted"
                   /\ status' = statusBeforeCall(sh)
                   /\ wire' = <<>>
              ELSE /\ hpc' = "rejected"
                   /\ status' = IF sh = "ws" THEN 101 ELSE GetHTTPStatusCode(NewValidationError)
                   /\ wire' = <<ErrorMessage(NewValidationError)>>
    /\ UNCHANGED <<storeVars, callVars, trimVars, validateVars, relayVars, rwVars, heapVars, keyVars>>

\* h.chatService.ProcessChat(&req) / ProcessChatStream(&req, sink) is called
Process ==
    /\ hpc = "accepted"
    /\ Begin(1, TRUE)
    /\ req'[1].Stream = (shape /= "json")

\* ProcessChat / ProcessChatStream has returned: the handler writes the
\* rest of its answer
Respond ==
    /\ hpc = "accepted"
    /\ pc[1] \in {"done", "failed"}
    /\ hpc' = "responded"
    /\ IF shape = "json"
       THEN /\ status' = GetHTTPStatusCode(ret[1].err)
            /\ wire' = IF ret[1].err /= nil
                       THEN <<ErrorMessage(ret[1].err)>>
                       ELSE <<ResponseMessage(ret[1].text)>>
       ELSE /\ status' = status
            /\ wire' = TokenWrites(sink[1]) \o closing(ret[1].err)
    /\ UNCHANGED shape
    /\ UNCHANGED <<storeVars, callVars, trimVars, validateVars, relayVars, rwVars, heapVars, keyVars>>

\* the handler returns
Finish ==
    /\ hpc = "responded"
    /\ Return(1)

InitHTTP ==
    /\ \E n \in 0 .. MaxN : NewMemoryStore(n)
    /\ NewChatService("nil")
    /\ TrimIdle
    /\ ValidateIdle
    /\ RWIdle
    /\ HeapIdle
    /\ KeyIdle
    /\ HTTPIdle

NextHTTP ==
    \/ ChatHandler
    \/ Process
    \/ ReadHistory(1)
    \/ AppendUser(1)
    \/ CacheBlock(1)
    \/ BackendCall(1, TRUE)
    \/ Deliver(1)
    \/ AppendAssistant(1)
    \/ Respond
    \/ Finish

SpecHTTP == InitHTTP /\ [][NextHTTP]_vars

\* ------------------------------------------------------------------ what the claims speak of
\* the positions where a complete exchange starts: a user message
\* immediately followed by an assistant message
ExchangeStarts(msgs) ==
    {i \in 1 .. Len(msgs) - 1 : msgs[i].role = "user" /\ msgs[i + 1].role = "assistant"}

CompleteExchanges(msgs) == Cardinality(ExchangeStarts(msgs))

\* the number of user messages at the end that no assistant message follows
RECURSIVE TrailingUsers(_)
TrailingUsers(msgs) ==
    IF msgs = <<>> \/ msgs[Len(msgs)].role /= "user" THEN 0
    ELSE 1 + TrailingUsers(SubSeq(msgs, 1, Len(msgs) - 1))

\* msgs is user, assistant, user, assistant, ... with every pair complete
RECURSIVE IsExchanges(_)
IsExchanges(msgs) ==
    \/ msgs = <<>>
    \/ /\ Len(msgs) >= 2
       /\ msgs[1].role = "user"
       /\ msgs[2].role = "assistant"
       /\ IsExchanges(SubSeq(msgs, 3, Len(msgs)))

Min(a, b) == IF a < b THEN a ELSE b

\* the last n elements of msgs
LastN(msgs, n) == SubSeq(msgs, Len(msgs) - n + 1, Len(msgs))

\* the last AddMessage's trimming pass removed something
Trimmed == Len(messages) < Len(pre)
Cut == Len(pre) - Len(messages)
Excess == CompleteExchanges(pre) - maxExchanges
Removed == SubSeq(pre, 1, Cut)

\* ------------------------------------------------------------------ claims

\* C1 (as stated): with maxExchanges = N > 0, after every AddMessage the
\* history holds at most N complete exchanges and at most one unmatched user
\* message at its end.
C1_AsStated ==
    maxExchanges > 0 =>
        /\ CompleteExchanges(messages) <= maxExchanges
        /\ TrailingUsers(messages) <= 1

\* C1 (amended): with maxExchanges = N > 0, after every AddMessage the
\* history holds at most N complete exchanges; the pass that runs on a
\* history ending in a user message removes nothing, whatever precedes it.
C1_AtMostNExchanges ==
    maxExchanges > 0 =>
        /\ CompleteExchanges(messages) <= maxExchanges
        /\ (pre /= <<>> /\ pre[Len(pre)].role = "user" => messages = pre)

C1_Witness ==
    /\ maxExchanges = 1
    /\ Trimmed
    /\ CompleteExchanges(pre) = 2

\* the history is a run of complete exchanges, optionally followed by one
\* unmatched user message
IsExchangesThenUser(msgs) ==
    \/ IsExchanges(msgs)
    \/ /\ msgs /= <<>>
       /\ msgs[Len(msgs)].role = "user"
       /\ IsExchanges(SubSeq(msgs, 1, Len(msgs) - 1))

\* C2: in every reachable state of the relay the history is a concatenation
\* of exchanges, optionally followed by exactly one unmatched user message.
C2_AsStated == IsExchangesThenUser(messages)

\* C3 (as stated): a pass that removes anything removes exactly
\* excess = completeCount - maxExchanges leading user/assistant pairs,
\* 2 x excess messages, and keeps the rest in order.
C3_AsStated ==
    Trimmed =>
        /\ Cut = 2 * Excess
        /\ IsExchanges(Removed)
        /\ messages = SliceFrom(pre, Cut)

\* C3 (amended): a pass that removes anything removes the prefix that ends
\* right before the (excess+1)-th complete exchange: that prefix holds
\* exactly excess complete exchanges (and any messages outside exchanges
\* among them), no exchange is split by the cut, the kept part starts with a
\* complete exchange and is the rest of the history in order.
C3_WholeLeadingExchanges ==
    Trimmed =>
        /\ Excess > 0
        /\ CompleteExchanges(Removed) = Excess
        /\ Cut >= 2 * Excess
        /\ ~(pre[Cut].role = "user" /\ pre[Cut + 1].role = "assistant")
        /\ 1 \in ExchangeStarts(messages)
        /\ messages = SliceFrom(pre, Cut)

C3_Witness ==
    /\ Trimmed
    /\ Cut > 2 * Excess

\* C4: the assistant message a request appends is, right after the append,
\* directly preceded by the user message the same request appended.
C4_AsStated ==
    [][\A w \in Workers :
          AppendAssistant(w) =>
              /\ Len(messages') >= 2
              /\ messages'[Len(messages')] = Message("assistant", response[w])
              /\ messages'[Len(messages') - 1] = newUserMsg(w)]_vars

\* the messages that belong to a complete exchange
TurnsInExchanges(msgs) == 2 * CompleteExchanges(msgs)

\* C5 (as stated): with maxExchanges = N > 0 the history never holds more
\* than 2 x N messages.
C5_AsStated == maxExchanges > 0 => Len(messages) <= 2 * maxExchanges

\* C5 (amended): with maxExchanges = N > 0 the history never holds more than
\* 2 x N messages that belong to complete exchanges; the messages outside
\* complete exchanges come on top.
C5_ExchangeTurnsBounded ==
    maxExchanges > 0 => TurnsInExchanges(messages) <= 2 * maxExchanges

C5_Witness ==
    /\ maxExchanges = 1
    /\ Trimmed
    /\ Len(messages) = 2
    /\ \E w \in Workers : pc[w] = "done"

\* the goroutines between Lock() returning and Unlock()
WritersInside ==
    {c \in Callers :
        spc[c] \in {"add:read", "add:write", "add:trim", "add:Unlock", "clear:write", "clear:Unlock"}}

\* the goroutines between RLock() returning and RUnlock()
ReadersInside == {c \in Callers : spc[c] \in {"get:copy", "get:RUnlock"}}

\* C8: an AddMessage or Clear is never inside the critical section together
\* with another AddMessage, Clear or GetMessages, and what a GetMessages
\* copied is the content some Unlock() left (or the initial one), still the
\* store's content while the call holds the lock: never a half-done append.
C8_ExclusiveAndAtomic ==
    /\ Cardinality(WritersInside) <= 1
    /\ WritersInside /= {} => ReadersInside = {}
    /\ \A c \in Callers :
           spc[c] = "get:RUnlock" => result[c] = committed /\ result[c] = messages

C8_Witness ==
    \E c1, c2, c3 \in Callers :
        /\ c1 /= c2
        /\ spc[c1] = "get:RUnlock"
        /\ spc[c2] = "get:RUnlock"
        /\ result[c1] /= <<>>
        /\ spc[c3] = "add:wait"

\* the messages of a sequence, each with the number of times it occurs
SeqToBag(msgs) ==
    [m \in {msgs[i] : i \in DOMAIN msgs} |-> Cardinality({i \in DOMAIN msgs : msgs[i] = m})]

AllReturned == \A c \in Callers : spc[c] = "idle"

\* C9: once every call has returned, with no trimming triggered (and no
\* Clear), the history holds exactly the messages given to AddMessage, each
\* as many times as it was given.
C9_NoAppendLost ==
    (AllReturned /\ dropped = 0 /\ ~cleared) => SeqToBag(messages) = added

C9_Witness ==
    /\ AllReturned
    /\ dropped = 0
    /\ ~cleared
    /\ nCalls = 4
    /\ {messages[i].content : i \in DOMAIN messages} = {<<1>>, <<2>>, <<3>>}

\* C10: what GetMessages returned is a copy of its own.  Whatever the caller
\* writes into it or appends to it, the store's slice still holds the history
\* that the AddMessage and Clear calls alone produce; and whatever AddMessage,
\* its trimming or Clear do afterwards, the caller's slice still holds what
\* was returned with the caller's own changes.
C10_IndependentCopy ==
    /\ View(heap, sl) = messages
    /\ snap /= NoSlice => View(heap, snap) = snapValue

C10_Witness ==
    /\ snap /= NoSlice
    /\ snap.len >= 2
    /\ View(heap, snap)[1] = Message("assistant", <<0>>)
    /\ sl.off > 0
    /\ View(heap, sl) /= View(heap, snap)

\* C6: with maxExchanges = N > 0, after k exchanges appended one after
\* another to an empty store the history is exactly the last min(k, N)
\* exchanges, in order and with their contents.
C6_LastExchangesKept ==
    (maxExchanges > 0 /\ IsExchanges(log)) =>
        messages = LastN(log, 2 * Min(Len(log) \div 2, maxExchanges))

C6_Witness ==
    /\ maxExchanges = 2
    /\ IsExchanges(log)
    /\ Len(log) = 6
    /\ messages = SubSeq(log, 3, 6)

\* C7: running the trimming pass a second time changes nothing.
C7_Idempotent == Len(tout) = 2 => tout[2] = tout[1]

C7_Witness ==
    /\ Len(tout) = 2
    /\ tmax = 1
    /\ Len(tout[1]) < Len(tin)

\* C11: Validate accepts a request exactly when its turn list is non-empty,
\* every role is "user" or "assistant", every content is non-empty and the
\* last role is "user"; every rejection is a validation error.
Acceptable(r) ==
    /\ Len(r.Messages) > 0
    /\ \A i \in 1 .. Len(r.Messages) :
           /\ r.Messages[i].role \in {"user", "assistant"}
           /\ r.Messages[i].content /= <<>>
    /\ r.Messages[Len(r.Messages)].role = "user"

C11_AcceptsIff ==
    vres /= Pending =>
        /\ vres = nil <=> Acceptable(vreq)
        /\ vres /= nil => As(vres) = "validation_error"

\* a three-turn request rejected only for the empty content of its first turn
C11_Witness ==
    /\ vres = NewValidationError
    /\ Len(vreq.Messages) = MaxTurns
    /\ vreq.Messages[1] = Message("assistant", <<>>)
    /\ \A i \in 2 .. MaxTurns : vreq.Messages[i] = Message("user", <<1>>)

\* ------------------------------------------------------------------ what the relay's claims speak of
\* the fragments of a stream: the non-empty contents of its chunks, in
\* order, up to the [DONE] marker
RECURSIVE FragmentsFrom(_, _)
FragmentsFrom(lines, i) ==
    IF i > Len(lines) \/ lines[i].kind = "done" THEN <<>>
    ELSE IF lines[i].kind = "chunk" /\ lines[i].content /= <<>>
         THEN <<lines[i].content>> \o FragmentsFrom(lines, i + 1)
         ELSE FragmentsFrom(lines, i + 1)

Fragments(lines) == FragmentsFrom(lines, 1)

\* the texts of a sequence, one after the other
RECURSIVE Concat(_)
Concat(fs) == IF fs = <<>> THEN <<>> ELSE Head(fs) \o Concat(Tail(fs))

InFlight(w) == pc[w] /= "idle"
FailedValidation(w) == InFlight(w) /\ ValidateErr(req[w]) /= nil
BackendFailed(w) == err[w] /= nil
SinkFailed(w) == sinkErr[w] /= nil
Succeeded(w) == pc[w] = "done"
Streaming(w) == InFlight(w) /\ req[w].Stream

\* the kinds a backend failure is classified into
BackendKinds == {"unauthorized_error", "rate_limit_error", "timeout_error", "llm_error", "internal_error"}

\* C12: a request that fails validation returns the validation error and
\* has no other effect: the history is what it was when the request came
\* in, the backend client was not called, the cache was not called and the
\* sink was not invoked.
C12_InvalidHasNoEffect ==
    \A w \in Workers :
        FailedValidation(w) =>
            /\ pc[w] = "failed"
            /\ ret[w].text = <<>>
            /\ As(ret[w].err) = "validation_error"
            /\ messages = before[w]
            /\ sent[w] = <<>>
            /\ exch[w] = NoOutcome
            /\ cacheCalls[w] = <<>>
            /\ sink[w] = <<>>

\* an invalid streaming request, with a cache, on a history that is not empty
C12_Witness ==
    /\ FailedValidation(1)
    /\ req[1].Stream
    /\ cacheStore = "redis"
    /\ messages /= <<>>
    /\ req[1].Messages /= <<>>

\* C13: when the backend call of a valid request fails, the relay returns an
\* error and no text, and the history is the history before the request
\* followed by the request's user turn, with no assistant turn.
C13_FailureKeepsUserTurnOnly ==
    \A w \in Workers :
        BackendFailed(w) =>
            /\ pc[w] = "failed"
            /\ ret[w].text = <<>>
            /\ ret[w].err /= nil
            /\ messages = Append(before[w], newUserMsg(w))

\* a non-streaming request refused for the rate limit, on a history that is not empty
C13_Witness ==
    /\ BackendFailed(1)
    /\ ~req[1].Stream
    /\ As(ret[1].err) = "rate_limit_error"
    /\ before[1] /= <<>>

\* C14 (as stated): the error returned for a failed backend call has the
\* kind of the backend client's error, and that kind is one of the kinds of
\* backend failures.
C14_AsStated ==
    \A w \in Workers :
        BackendFailed(w) =>
            /\ As(ret[w].err) = As(err[w])
            /\ As(ret[w].err) \in BackendKinds

\* C15: a valid non-streaming request served alone, with no trimming,
\* returns the text the backend client returned, and leaves the history
\* before it followed by its last turn and an assistant turn with that text.
C15_TextAndTwoTurns ==
    \A w \in Workers :
        (Succeeded(w) /\ ~req[w].Stream /\ ~Trimmed) =>
            /\ ret[w] = [text |-> Chat(exch[w]).text, err |-> nil]
            /\ messages = before[w] \o <<req[w].Messages[Len(req[w].Messages)],
                                        Message("assistant", Chat(exch[w]).text)>>

\* a request that repeats earlier turns, on a history that is not empty
C15_Witness ==
    /\ Succeeded(1)
    /\ ~req[1].Stream
    /\ ~Trimmed
    /\ before[1] /= <<>>
    /\ Len(req[1].Messages) > 1
    /\ Len(messages) = Len(before[1]) + 2

\* C16 (as stated): in a streaming request that succeeds the sink received
\* every fragment the backend generated, once and in order; while it runs,
\* the sink holds a prefix of them.
C16_AsStated ==
    \A w \in Workers :
        Streaming(w) =>
            /\ \E n \in 0 .. Len(Fragments(exch[w].lines)) :
                   sink[w] = SubSeq(Fragments(exch[w].lines), 1, n)
            /\ pc[w] \in {"addAssistant", "done"} => sink[w] = Fragments(exch[w].lines)

\* C17: the text a successful streaming request returns, and stores as the
\* assistant turn, is the concatenation in order of the fragments the sink
\* was given.
C17_TextIsConcatenation ==
    \A w \in Workers :
        (Succeeded(w) /\ req[w].Stream) =>
            /\ ret[w] = [text |-> Concat(sink[w]), err |-> nil]
            /\ messages[Len(messages)] = Message("assistant", Concat(sink[w]))

\* two fragments were delivered
C17_Witness ==
    /\ Succeeded(1)
    /\ req[1].Stream
    /\ Len(sink[1]) = 2
    /\ ret[1].text = sink[1][1] \o sink[1][2]
    /\ sink[1][1] /= sink[1][2]

\* C18: when the sink returns an error, the request fails at once: the sink
\* is not invoked again, the sink's error comes back wrapped with no text,
\* and no assistant turn is appended.
C18_SinkErrorAborts ==
    \A w \in Workers :
        SinkFailed(w) =>
            /\ pc[w] = "failed"
            /\ ret[w] = [text |-> <<>>, err |-> Errorf(Errorf(sinkErr[w]))]
            /\ Len(sink[w]) < Len(Fragments(exch[w].lines))
               => sink[w] = SubSeq(Fragments(exch[w].lines), 1, Len(sink[w]))
            /\ messages = Append(before[w], newUserMsg(w))

\* the sink failed on the first of two fragments
C18_Witness ==
    /\ SinkFailed(1)
    /\ Len(sink[1]) = 1
    /\ Len(Fragments(exch[1].lines)) = 2
    /\ before[1] /= <<>>

\* what ScanStream has delivered when it has consumed the lines up to pos
Delivered(w) == Fragments(SubSeq(exch[w].lines, 1, pos[w]))

\* a request fails for a reason of its own
OwnFailure(w) ==
    \/ ValidateErr(req[w]) /= nil
    \/ (~req[w].Stream /\ Chat(exch[w]).err /= nil)
    \/ (req[w].Stream /\ DoRequest(exch[w]) /= nil)
    \/ SinkFailed(w)

\* C19: whatever happens to the sink of another request, a request fails
\* only for a reason of its own; its sink gets its own fragments in order as
\* its stream is read, all that are read when it succeeds, and it then
\* appends its own assistant turn.
C19_SinkErrorIsLocal ==
    /\ [](\A w \in Workers :
            /\ pc[w] = "failed" => OwnFailure(w)
            /\ (Streaming(w) /\ pc[w] \in {"scan", "addAssistant", "done"}) => sink[w] = Delivered(w)
            /\ (Streaming(w) /\ pc[w] \in {"addAssistant", "done"}) =>
                   /\ sink[w] = Fragments(SubSeq(exch[w].lines, 1, exch[w].got))
                   /\ response[w] = Concat(sink[w]))
    /\ [][\A w \in Workers :
            (pc[w] = "addAssistant" /\ pc'[w] = "done") =>
                messages'[Len(messages')] = Message("assistant", response[w])]_vars

\* one request failed on its sink, the other, which took its snapshot and
\* appended its user turn while the first was in flight, got both fragments
C19_Witness ==
    /\ pc[1] = "failed"
    /\ SinkFailed(1)
    /\ Succeeded(2)
    /\ req[2].Stream
    /\ Len(sink[2]) = 2
    /\ history[1] = history[2]
    /\ Len(messages) = Len(history[1]) + 3

\* the steps of a request, in the order the claim names them
Steps ==
    { <<"idle", "read">>, <<"idle", "failed">>,
      <<"read", "addUser">>, <<"addUser", "cache">>, <<"cache", "call">>,
      <<"call", "scan">>, <<"scan", "scan">>,
      <<"call", "addAssistant">>, <<"scan", "addAssistant">>,
      <<"call", "failed">>, <<"scan", "failed">>,
      <<"addAssistant", "done">>,
      <<"done", "idle">>, <<"failed", "idle">> }

\* goroutine w takes a step
Moves(w) == <<pc[w], sent[w], sink[w]>>' /= <<pc[w], sent[w], sink[w]>>

\* C20: a request goes validating -> history read -> backend call ->
\* history append -> done, and fails only from validating or from the
\* backend call; it appends its user turn before the backend is called, its
\* assistant turn only once the backend call has returned without error,
\* and nothing else.
C20_StepsInOrder ==
    [][\A w \in Workers :
          Moves(w) =>
              /\ <<pc[w], pc'[w]>> \in Steps
              /\ (pc[w] = "addUser") =>
                     /\ sent[w] = <<>>
                     /\ messages'[Len(messages')] = newUserMsg(w)
              /\ (pc[w] = "addAssistant") =>
                     /\ err[w] = nil
                     /\ sent[w] /= <<>>
                     /\ messages'[Len(messages')] = Message("assistant", response[w])
              /\ (pc[w] \notin {"addUser", "addAssistant"}) => messages' = messages]_vars

\* a request is done, after a backend call that streamed
C20_Witness ==
    /\ Succeeded(1)
    /\ sent[1] /= <<>>
    /\ Len(sink[1]) = 2
    /\ pc[2] = "failed"
    /\ BackendFailed(2)

\* goroutine w holds the store's lock, for writing or for reading
HoldsWrite(w) == mu.w = w /\ spc[w] \in {"add:read", "add:write", "add:trim", "add:Unlock"}
HoldsRead(w) == w \in mu.readers

\* goroutine w is in the cache block, in the backend call or in the sink
InCall(w) == pc[w] \in {"cache", "call", "scan"}

\* C21: a request that is in a cache call, in the backend call or in a sink
\* invocation holds neither the read nor the write lock of the store; it
\* has the write lock (held or awaited) only inside AddMessage, from Lock to
\* Unlock, and the read lock only inside GetMessages, around the copy.
C21_NoLockAcrossCalls ==
    \A w \in Workers :
        /\ InCall(w) => (mu.w /= w /\ ~HoldsRead(w) /\ spc[w] = "idle")
        /\ mu.w = w => (spc[w] \in {"add:wait", "add:read", "add:write", "add:trim", "add:Unlock"}
                        /\ pc[w] \in {"addUser", "addAssistant"})
        /\ HoldsRead(w) => (spc[w] \in {"get:copy", "get:RUnlock"} /\ pc[w] = "read")

\* a request is being streamed to its sink, after cache calls, while another
\* request holds the write lock
C21_Witness ==
    /\ pc[1] = "scan"
    /\ sink[1] /= <<>>
    /\ cacheCalls[1] /= <<>>
    /\ HoldsWrite(2)

\* what the backend call of goroutine w returned, from the exchange with the
\* backend and the answers of the sink alone
CallReturn(w) ==
    IF ~req[w].Stream THEN Chat(exch[w])
    ELSE IF DoRequest(exch[w]) /= nil THEN [text |-> <<>>, err |-> Errorf(DoRequest(exch[w]))]
    ELSE IF sinkErr[w] /= nil THEN [text |-> <<>>, err |-> Errorf(sinkErr[w])]
    ELSE [text |-> Concat(sink[w]), err |-> nil]

\* a cache error is a layer of the error e
FromCache(e) == \E i \in 1 .. Len(e) : e[i] = CacheError[1]

\* C22: the cache does not show in the outcome.  Whether there is no cache,
\* or it hits, misses, or fails on GetTokenCount, CountTokens or
\* SetTokenCount, a valid request that has returned called the backend, and
\* its text, its error and the history are those the request, the history
\* before it, the backend's exchange and the sink's answers determine; no
\* cache error is in the error returned.
C22_CacheIsInvisible ==
    \A w \in Workers :
        (pc[w] \in {"done", "failed"} /\ ValidateErr(req[w]) = nil) =>
            /\ exch[w] /= NoOutcome
            /\ ~FromCache(ret[w].err)
            /\ ret[w] = IF CallReturn(w).err /= nil
                        THEN [text |-> <<>>, err |-> Errorf(CallReturn(w).err)]
                        ELSE [text |-> CallReturn(w).text, err |-> nil]
            /\ messages = IF CallReturn(w).err /= nil
                          THEN Append(before[w], newUserMsg(w))
                          ELSE trimToMaxExchanges(
                                   before[w] \o <<newUserMsg(w), Message("assistant", CallReturn(w).text)>>,
                                   maxExchanges)

\* the cache failed on its first call, and the request returned the
\* backend's text
C22_Witness ==
    /\ Succeeded(1)
    /\ cacheStore = "redis"
    /\ cacheCalls[1] = <<GetTokenCount(sent[1], "get error")>>
    /\ ret[1].text /= <<>>
    /\ before[1] /= <<>>

\* C23: the keys of identical message lists are identical, every key has
\* the prefix token_count:, and two lists that differ in a role, a content
\* or the order of their turns have different serializations and, digests
\* of different inputs being different, different keys.
C23_KeyFollowsTurns ==
    keys /= <<NoKey, NoKey>> =>
        /\ keys = <<getCacheKey(keyed[1]), getCacheKey(keyed[2])>>
        /\ keys[1][1] = "token_count:"
        /\ keys[2][1] = "token_count:"
        /\ keyed[1] = keyed[2] => keys[1] = keys[2]
        /\ keyed[1] /= keyed[2] =>
               /\ Marshal(keyed[1]) /= Marshal(keyed[2])
               /\ keys[1] /= keys[2]

\* two lists of the same two turns in opposite orders, one turn with a
\* replaced byte
C23_Witness ==
    /\ keys /= <<NoKey, NoKey>>
    /\ Len(keyed[1]) = 2
    /\ keyed[2] = <<keyed[1][2], keyed[1][1]>>
    /\ keyed[1][1] /= keyed[1][2]
    /\ keyed[1][1].content = <<"U+FFFD">>
    /\ keys[1] /= keys[2]

\* the last turn of the request of goroutine w
LastTurn(w) == req[w].Messages[Len(req[w].Messages)]

\* a turn the caller repeated before the last one of its list
Repeated(msgs) == \E i \in 1 .. Len(msgs) : msgs[i].content = <<0>>

\* C24: what a valid request gives to the backend client is the snapshot it
\* took of the history followed by its last turn; the snapshot is the
\* store's history at the time it is taken; the request appends its last
\* turn and nothing else of its list to the history, and the earlier turns
\* of its list are neither sent nor stored.
C24_SnapshotThenLastTurn ==
    /\ [](\A w \in Workers :
            /\ sent[w] /= <<>> => sent[w] = Append(history[w], LastTurn(w))
            /\ ~Repeated(sent[w])
            /\ ~Repeated(messages))
    /\ [][\A w \in Workers :
            /\ (pc[w] = "read" /\ pc'[w] = "addUser") => history'[w] = messages
            /\ (pc[w] = "addUser" /\ pc'[w] = "cache") => messages' = Append(messages, LastTurn(w))
            /\ (pc[w] = "call" /\ pc'[w] /= "call") => sent'[w] = Append(history[w], LastTurn(w))]_vars

\* a request that repeats two earlier turns is in its backend call, with a
\* snapshot that is not empty; the other request appended a turn after the
\* snapshot was taken, so the store holds a turn that was not sent
C24_Witness ==
    /\ pc[1] = "scan"
    /\ sent[1] /= <<>>
    /\ Len(req[1].Messages) = 3
    /\ history[1] /= <<>>
    /\ Len(sent[1]) = Len(history[1]) + 1
    /\ \E i \in 1 .. Len(messages) :
           \A j \in 1 .. Len(sent[1]) : sent[1][j] /= messages[i]

\* C25 (as stated): every turn in the history has the role user or
\* assistant and a content that is not empty.
C25_AsStated ==
    \A i \in 1 .. Len(messages) :
        /\ messages[i].role \in Roles
        /\ messages[i].content /= <<>>

\* the client's Timeout expired during the exchange of goroutine w: before
\* the response came, or while its body was read
Expired(w) == exch[w].transport = "timeout" \/ exch[w].cut = "timeout"

\* C26 (as stated): when the client's timeout expires during a Chat or
\* StreamChat call, before the response or while the body is read, the call
\* ends with an error of the kind timeout and no text, and the relay appends
\* no assistant turn.
C26_AsStated ==
    \A w \in Workers :
        (Expired(w) /\ pc[w] \in {"failed", "addAssistant", "done"}) =>
            /\ pc[w] = "failed"
            /\ As(err[w]) = "timeout_error"
            /\ response[w] = <<>>
            /\ messages = Append(before[w], newUserMsg(w))

\* the request the handler has answered failed validation: its body could
\* not be decoded, or Validate rejected it
AnsweredInvalid == hpc = "rejected" \/ (hpc = "responded" /\ FailedValidation(1))

\* C27 (as stated): a chat request that fails validation is answered with
\* the status 400, as a JSON response and as an SSE stream.
C27_AsStated ==
    (AnsweredInvalid /\ shape \in {"json", "sse"}) => status = 400

\* C28 (as stated): a non-streaming chat request whose backend call fails is
\* answered with the status 502, whatever the failure.
C28_AsStated ==
    (hpc = "responded" /\ shape = "json" /\ BackendFailed(1)) => status = 502

\* the number of completion markers among the first n messages written
RECURSIVE Markers(_, _)
Markers(msgs, n) ==
    IF n = 0 THEN 0 ELSE Markers(msgs, n - 1) + (IF msgs[n].kind = "done" THEN 1 ELSE 0)

\* C29: on SSE and WebSocket, once ProcessChatStream has returned and the
\* handler has answered, the messages written are the token messages of the
\* sink's calls, in order, followed by one last message: the completion
\* marker if ProcessChatStream returned no error, the error response if it
\* returned one; the marker is written at most once, after every token
\* message, and never after an error.  A request that is rejected before
\* ProcessChatStream is called gets the error response and no marker, and
\* nothing is written after the sink's tokens while the call is running.
C29_MarkerClosesSuccess ==
    shape \in {"sse", "ws"} =>
        /\ Markers(wire, Len(wire)) <= 1
        /\ hpc = "accepted" => wire = <<>>
        /\ hpc = "rejected" => wire = <<ErrorMessage(NewValidationError)>>
        /\ (hpc = "responded" /\ pc[1] \in {"done", "failed"}) =>
               /\ Len(wire) = Len(sink[1]) + 1
               /\ \A i \in 1 .. Len(sink[1]) : wire[i] = TokenMessage(sink[1][i])
               /\ (ret[1].err = nil) <=> (wire[Len(wire)] = DoneMessage)
               /\ (ret[1].err /= nil) <=> (wire[Len(wire)] = ErrorMessage(ret[1].err))
               /\ (ret[1].err = nil) <=> (Markers(wire, Len(wire)) = 1)

\* an SSE request answered with two tokens and then the marker
C29_Witness ==
    /\ shape = "sse"
    /\ hpc = "responded"
    /\ Succeeded(1)
    /\ Len(wire) = 3
    /\ wire[1].kind = "token"
    /\ wire[2].kind = "token"
    /\ wire[3] = DoneMessage

\* C30: with maxExchanges <= 0 nothing is trimmed: the history is the
\* messages appended since the store was last empty, in the order of their
\* appends; with no Clear it is all the k messages of the k appends.
C30_NoLimitNoTrim ==
    maxExchanges <= 0 =>
        /\ messages = log
        /\ pre = log
        /\ Len(log) = nAppends => Len(messages) = nAppends

\* eight appends and no Clear on a store with maxExchanges = 0: four
\* complete exchanges are kept
C30_Witness ==
    /\ maxExchanges = 0
    /\ nAppends = MaxAppends
    /\ Len(messages) = MaxAppends
    /\ countExchanges(messages) = 4

\* C31: the message given to AddMessage is the last of the history when the
\* call returns, whatever the history before, the role and maxExchanges; a
\* user message is appended and nothing is trimmed, so that a trailing user
\* message, and a user message alone in the store, stay.
C31_AppendKeepsTurn ==
    [][nAppends' = nAppends + 1 =>
          /\ messages' /= <<>>
          /\ messages'[Len(messages')] = log'[Len(log')]
          /\ log'[Len(log')].role = "user" => messages' = Append(messages, log'[Len(log')])]_vars

\* an AddMessage that trimmed has returned: its message is the last one
C31_Witness ==
    /\ maxExchanges = 1
    /\ Len(messages) < Len(pre)
    /\ messages[Len(messages)] = log[Len(log)]
    /\ Len(log) > 3

\* the history of a new store with the limit maxEx after AddMessage of the
\* first n messages of msgs
RECURSIVE Replay(_, _, _)
Replay(msgs, n, maxEx) ==
    IF n = 0 THEN <<>>
    ELSE trimToMaxExchanges(Append(Replay(msgs, n - 1, maxEx), msgs[n]), maxEx)

\* C32: Clear leaves the history empty, whatever it was, and leaves
\* maxExchanges as it was; the messages appended after it are kept and
\* trimmed as in a new store with the same limit.
C32_ClearResets ==
    /\ [](messages = Replay(log, Len(log), maxExchanges))
    /\ [][nAppends' = nAppends =>
            /\ messages /= <<>>
            /\ messages' = <<>>
            /\ maxExchanges' = maxExchanges]_vars

\* after a Clear of a store that was not empty, the appends were trimmed
C32_Witness ==
    /\ nAppends > Len(log)
    /\ maxExchanges = 1
    /\ messages /= <<>>
    /\ Len(messages) < Len(log)

\* goroutine w has appended the user turn of its request
UserAppended(w) ==
    \/ pc[w] \in {"cache", "call", "scan", "addAssistant", "done"}
    \/ (pc[w] = "failed" /\ sent[w] /= <<>>)

\* the history holds msg
Holds(msg) == \E i \in 1 .. Len(messages) : messages[i] = msg

\* msg is in the list goroutine w gave to the backend
Sent(w, msg) == \E i \in 1 .. Len(sent[w]) : sent[w][i] = msg

\* C33: the appends are atomic, the snapshot followed by the append is not.
\* No append is lost: as long as nothing was trimmed, the history holds the
\* user turn of every request that has appended it, and what a request
\* sends is its own snapshot and its own turn; the witness is the
\* interleaving in which both requests took their snapshot before either
\* appended.
C33_AppendsAtomic ==
    \A w \in Workers :
        (UserAppended(w) /\ dropped = 0) =>
            /\ Holds(LastTurn(w))
            /\ sent[w] /= <<>> => sent[w] = Append(history[w], LastTurn(w))

\* both requests took their snapshot before either appended: neither sent
\* the other's user turn, and the history holds both
C33_Witness ==
    /\ sent[1] /= <<>>
    /\ sent[2] /= <<>>
    /\ history[1] = <<>>
    /\ history[2] = <<>>
    /\ ~Sent(1, LastTurn(2))
    /\ ~Sent(2, LastTurn(1))
    /\ Holds(LastTurn(1))
    /\ Holds(LastTurn(2))

\* C34: the token-cache protocol of a valid request.  With a nil cache no
\* cache call is made; otherwise GetTokenCount is the first call and is
\* made once; CountTokens is made only as the second call after a
\* GetTokenCount that returned no error and found nothing; SetTokenCount is
\* made only as the third call, after such a miss and a CountTokens without
\* error, and is given the count CountTokens returned; every call is given
\* the snapshot followed by the new user turn.  The calls are made in one
\* place: after the user turn is in the history and before the backend
\* client is called.
CleanMiss(c) == c.call = "GetTokenCount" /\ c.err = nil /\ ~c.found
C34_CacheProtocol ==
    /\ [](\A w \in Workers :
             LET c == cacheCalls[w]
             IN  /\ cacheStore = "nil" => c = <<>>
                 /\ (cacheStore /= "nil" /\ pc[w] \in {"call", "scan", "addAssistant", "done"}) => c /= <<>>
                 /\ c /= <<>> =>
                        /\ c[1].call = "GetTokenCount"
                        /\ \A i \in 1 .. Len(c) :
                               /\ c[i].messages = Append(history[w], LastTurn(w))
                               /\ c[i].call = "GetTokenCount" => i = 1
                               /\ c[i].call = "CountTokens" => (i = 2 /\ CleanMiss(c[1]))
                               /\ c[i].call = "SetTokenCount" =>
                                      /\ i = 3
                                      /\ CleanMiss(c[1])
                                      /\ c[2].call = "CountTokens"
                                      /\ c[2].err = nil
                                      /\ c[i].given = c[2].count
                                      /\ c[i].given = CountTokens(Append(history[w], LastTurn(w))))
    /\ [][\A w \in Workers :
              /\ (cacheCalls'[w] /= cacheCalls[w] /\ cacheCalls'[w] /= <<>>) =>
                     (pc[w] = "cache" /\ cacheCalls[w] = <<>>)
              /\ (pc[w] = "cache" /\ pc'[w] /= "cache") =>
                     /\ pc'[w] = "call"
                     /\ Holds(LastTurn(w))
                     /\ messages' = messages
                     /\ sent'[w] = <<>>
                     /\ exch'[w] = NoOutcome
              /\ (exch'[w] /= exch[w] /\ exch'[w] /= NoOutcome) => pc[w] = "call"]_vars

\* a request that succeeded after a miss: the count of a snapshot of two turns
\* and the new turn was computed and stored
C34_Witness ==
    /\ Succeeded(1)
    /\ Len(cacheCalls[1]) = 3
    /\ Len(history[1]) = 2
    /\ cacheCalls[1][3].call = "SetTokenCount"
    /\ cacheCalls[1][3].given = cacheCalls[1][2].count
    /\ cacheCalls[1][3].given > 12

\* C35 (as stated): for every sequence of turns countExchanges returns the
\* number of complete exchanges in it, the number of indices i with a user
\* turn at i and an assistant turn at i + 1.
C35_AsStated == countExchanges(tin) = CompleteExchanges(tin)

\* C36: whenever a trimming pass removes at least one turn, what it keeps
\* begins with a complete exchange (a user turn immediately followed by an
\* assistant turn), holds exactly maxExchanges complete exchanges, and is a
\* suffix of the history before the pass.
PassIn(k) == IF k = 1 THEN tin ELSE tout[k - 1]
C36_TrimKeepsLastExchanges ==
    \A k \in 1 .. Len(tout) :
        Len(tout[k]) < Len(PassIn(k)) =>
            /\ 1 \in ExchangeStarts(tout[k])
            /\ CompleteExchanges(tout[k]) = tmax
            /\ tout[k] = SubSeq(PassIn(k), Len(PassIn(k)) - Len(tout[k]) + 1, Len(PassIn(k)))

\* a pass with a limit of 2 that removed the first of three exchanges and
\* kept two exchanges with a turn outside every exchange between them; a
\* second pass removed nothing
C36_Witness ==
    /\ tmax = 2
    /\ Len(tin) = 7
    /\ Len(tout) = 2
    /\ Len(tout[1]) = 5
    /\ tout[1][3].role = "system"
    /\ tout[2] = tout[1]

\* the index of the first [DONE] marker among the lines read, or one past
\* the lines read if there is none
FirstDone(lines, got) ==
    IF \E i \in 1 .. got : lines[i].kind = "done"
    THEN CHOOSE i \in 1 .. got : lines[i].kind = "done" /\ \A j \in 1 .. i - 1 : lines[j].kind /= "done"
    ELSE got + 1

\* the contents of the chunks with a content that is not empty among the
\* first n lines, in order
RECURSIVE TokensUpTo(_, _)
TokensUpTo(lines, n) ==
    IF n = 0 THEN <<>>
    ELSE TokensUpTo(lines, n - 1)
         \o (IF lines[n].kind = "chunk" /\ lines[n].content /= <<>> THEN <<lines[n].content>> ELSE <<>>)

\* C37: ScanStream reads the stream line by line and stops at the first
\* [DONE] marker.  The line it has last delivered lies before the marker and
\* is a chunk with a content that is not empty; the sink was called once for
\* every such line up to there, in order, and for no other line (blank
\* lines, lines that are not JSON, chunks without choices and chunks with an
\* empty content among them), and the text built so far is these contents
\* joined.  When the scan ends without a sink error, marker or not, the call
\* succeeds with the contents of all such lines before the marker (before the
\* end of the lines read if there is no marker).
C37_ScanStopsAtDone ==
    \A w \in Workers :
        Streaming(w) =>
            LET lines == exch[w].lines
                stop == FirstDone(lines, exch[w].got)
            IN  /\ pos[w] < stop
                /\ pos[w] > 0 => (lines[pos[w]].kind = "chunk" /\ lines[pos[w]].content /= <<>>)
                /\ sink[w] = TokensUpTo(lines, pos[w])
                /\ full[w] = Concat(sink[w])
                /\ (pc[w] \in {"addAssistant", "done"}) =>
                       /\ sink[w] = TokensUpTo(lines, stop - 1)
                       /\ response[w] = Concat(TokensUpTo(lines, stop - 1))
                       /\ err[w] = nil
                /\ pc[w] = "done" => ret[w] = [text |-> Concat(TokensUpTo(lines, stop - 1)), err |-> nil]

\* a stream with a blank line, a line that is not JSON, a chunk without
\* choices, a chunk with an empty content and a chunk after the marker: the
\* request succeeded with the two contents before the marker
C37_Witness ==
    /\ Succeeded(1)
    /\ req[1].Stream
    /\ FirstDone(exch[1].lines, exch[1].got) = 7
    /\ Len(exch[1].lines) = 8
    /\ exch[1].lines[8].kind = "chunk"
    /\ sink[1] = <<exch[1].lines[2].content, exch[1].lines[6].content>>
    /\ ret[1].text = exch[1].lines[2].content \o exch[1].lines[6].content

\* C38: every request terminates.  With the calls of the cache, the backend
\* client and the sink returning and the goroutines scheduled fairly, a
\* request that has started reaches done or failed, whatever the other
\* request and a goroutine calling Clear over and over do (so a request
\* blocked in Lock() or RLock() gets the lock); a lock held for writing or
\* for reading becomes free, and it is released only by the return of the
\* store operation of the goroutine that took it.
C38_RequestsTerminate ==
    /\ \A w \in Workers : (pc[w] \notin {"idle", "done", "failed"}) ~> (pc[w] \in {"done", "failed"})
    /\ (mu.w /= 0) ~> (mu.w = 0)
    /\ (mu.readers /= {}) ~> (mu.readers = {})
    /\ [][\A c \in Callers :
              /\ (mu.w = c /\ mu'.w /= c) =>
                     (mu'.w = 0 /\ spc[c] \in {"add:Unlock", "clear:Unlock"} /\ spc'[c] = "idle")
              /\ (c \in mu.readers /\ c \notin mu'.readers) =>
                     (spc[c] = "get:RUnlock" /\ spc'[c] = "idle")]_vars

\* one request is done; the other is blocked in Lock() for its assistant
\* turn while Clear holds the lock
C38_Witness ==
    /\ pc[1] = "done"
    /\ pc[2] = "addAssistant"
    /\ spc[2] = "add:Lock"
    /\ mu.w = Clearer
    /\ spc[Clearer] = "clear:write"
    /\ cleared

====
